---- MODULE Spec2Model ----
(***************************************************************************)
(* Model of the lucid_news pipeline orchestration core (src/app.py):       *)
(* the background scheduler set up by init_scheduler, the two pipeline     *)
(* entry points run_pipeline_job / run_quick_pipeline, and the manual      *)
(* trigger endpoint api_refresh.                                           *)
(*                                                                         *)
(* Collaborators that live outside the modelled files (database, scraper,  *)
(* clusterer, synthesizer) are modelled at their call sites: every call    *)
(* either returns one of its possible results or raises.                   *)
(***************************************************************************)
EXTENDS Integers, Sequences, FiniteSets, TLC

\* ------------------------------------------------------------------------
\* Bounds of the model
\* ------------------------------------------------------------------------
\* number of init_scheduler calls explored
MaxStarts == 2
\* number of pipeline runs in progress at the same time that are explored
MaxRunning == 2

\* ------------------------------------------------------------------------
\* Program constants
\* ------------------------------------------------------------------------
\* INGEST_SKIP_THRESHOLD of the specification (the literal of app.py:52)
SkipThreshold == 50
\* APScheduler's default for a job added without max_instances
MaxInstances == 1

None == 0

\* values of the environment variable ENABLE_SCHEDULER ("" = not set)
EnvValues == {"", "True", "false"}

\* str.lower() on the values above
Lower(v) == IF v = "True" THEN "true" ELSE v

\* results of database.get_articles_added_since(hours=2)
RecentCounts == {0, SkipThreshold - 1, SkipThreshold, SkipThreshold + 1}

\* the ids given to scheduler.add_job
JobIds == {"initial_pipeline", "full_pipeline", "quick_pipeline"}

\* BackgroundScheduler objects created by the calls of init_scheduler
Instances == 1..MaxStarts

\* the thread serving POST /api/refresh
ReqCtx == <<0, "refresh">>

\* execution contexts: one per job of each scheduler, and the request thread
SchedCtx == Instances \X JobIds
Ctx == SchedCtx \cup {ReqCtx}

VARIABLES
    ENABLE_SCHEDULER,   \* os.environ['ENABLE_SCHEDULER']
    scheduler,          \* the module global: None or the latest instance
    instances,          \* every BackgroundScheduler created so far
    created,            \* how many BackgroundScheduler objects exist
    startCalls,         \* calls of init_scheduler so far
    atexitHooks,        \* callbacks registered with atexit.register
    stopped,            \* a registered shutdown callback ran after the last start
    runs,               \* the pipeline invocation of each context
    response,           \* the last answer of api_refresh
    last_full_scrape,   \* the module global _last_full_scrape
    store,              \* the Items and Records of the Store
    held,               \* the Groups each invocation got from the Grouper
    classifier,         \* the invocation of classify_story
    migration,          \* the invocation of run_migration and the Store it writes
    cli,                \* the process started as `python main.py ...`
    ranker              \* a call of calculate_relevance_score

vars == <<ENABLE_SCHEDULER, scheduler, instances, created, startCalls,
          atexitHooks, stopped, runs, response, last_full_scrape, store,
          held, ranker, classifier, migration, cli>>

\* the state outside the scheduler and the pipeline invocations
llmVars == <<classifier, migration>>

dataVars == <<store, held, ranker, llmVars, cli>>

schedVars == <<ENABLE_SCHEDULER, scheduler, instances, created, startCalls,
               atexitHooks, stopped>>

\* most Items the Store holds
MaxItems == 2
ItemIds == 1 .. MaxItems

\* an Item id the Ingestor has not produced yet
Absent == -1

\* the Store before anything was ingested: no Item, no Record; ingestedBy
\* (the invocations whose Ingestor call added Items) and the contents at the
\* start of a second call are kept for the properties
NoStore ==
    [items |-> [i \in ItemIds |-> Absent], records |-> {}, ingestedBy |-> {},
     itemsBefore |-> [i \in ItemIds |-> Absent], recordsBefore |-> {}]

\* no invocation holds a result of the Grouper
NoHeld == [c \in Ctx |-> {}]

\* no call of calculate_relevance_score is in progress
NoRanker == [pc |-> "idle"]

\* classify_story is not being called, run_migration is not running
NoClassifier == [pc |-> "off"]
NoMigration == [pc |-> "off"]

\* main.py has not been started
NoCli == [pc |-> "off"]

\* ------------------------------------------------------------------------
\* Pipeline invocations
\* ------------------------------------------------------------------------
IdleRun ==
    [kind |-> "none", force |-> FALSE, pc |-> "idle", recent |-> -1,
     scrapeCalls |-> 0, checked |-> FALSE, raisedAt |-> "none",
     result |-> "None",
     \* what has_unclustered_articles() and run_clustering() returned
     has |-> "unknown", clusters |-> "unknown",
     \* calls of run_clustering and of run_synthesis so far
     clusterCalls |-> 0, synthCalls |-> 0]

\* a call of run_pipeline_job(force_scrape): control is at the imports
StartPipeline(force) ==
    [IdleRun EXCEPT !.kind = "pipeline", !.force = force, !.pc = "import"]

\* a call of run_quick_pipeline(): control is at the imports
StartQuick ==
    [IdleRun EXCEPT !.kind = "quick", !.pc = "import"]

\* only a run that ended without a failure counts as finished
EndedOnlyOnSuccess(r) == r.pc = "returned" /\ r.raisedAt = "none"

\* the function has come back to its caller, by return or by exception
Ended(r) == r.pc \in {"returned", "raised"}
InProgress(r) == r.pc # "idle"

\* the contexts that are executing a job or a request
Running == {c \in Ctx : InProgress(runs[c])}

\* should_scrape of run_pipeline_job
ShouldScrapeOffByOne(force, recent) == force \/ recent <= 50

\* a decision that also reads the time of the last scrape
ShouldScrapeUnlessStamped(force, recent) ==
    (force \/ recent < 50) /\ last_full_scrape = None

ShouldScrape(force, recent) == force \/ recent < 50

\* the statements inside the try block of run_pipeline_job
PipelineTryStatsOutside == {"import", "count", "scrape", "check", "cluster", "synth"}

PipelineTry == {"import", "count", "scrape", "check", "cluster", "synth", "stats"}

\* the statements inside the try block of run_quick_pipeline
QuickTry == {"import", "check", "cluster", "synth", "stats"}

TryBlock(kind) == IF kind = "pipeline" THEN PipelineTry ELSE QuickTry

\* the frame is left: the parameter and the locals are gone
Leave(r, how) ==
    [r EXCEPT !.pc = how, !.force = FALSE, !.recent = -1,
              !.has = "unknown", !.clusters = "unknown"]

\* a collaborator call at statement r.pc raised: `except Exception` prints
\* and the function returns None; outside the try the exception propagates
OnRaise(r) ==
    IF r.pc \in TryBlock(r.kind)
    THEN Leave([r EXCEPT !.raisedAt = r.pc], "returned")
    ELSE Leave([r EXCEPT !.raisedAt = r.pc], "raised")

\* the function falls off its end: it returns None
Return(r) == Leave(r, "returned")

\* ------------------------------------------------------------------------
\* The steps of run_pipeline_job and run_quick_pipeline; each collaborator
\* call is one step that returns or raises
\* ------------------------------------------------------------------------
Outcomes == {"ok", "raise"}

\* run_quick_pipeline with the count and scrape statements of run_pipeline_job
AfterImportAlwaysCounts(r) == [r EXCEPT !.pc = "count"]

\* the statement after the imports: the count in run_pipeline_job, the check
\* in run_quick_pipeline
AfterImport(r) ==
    [r EXCEPT !.pc = IF r.kind = "pipeline" THEN "count" ELSE "check"]

\* import scraper / clusterer / synthesizer
StepImport(c) ==
    /\ runs[c].pc = "import"
    /\ LET r == runs[c] IN
       \E o \in Outcomes :
          runs' = [runs EXCEPT ![c] =
                     IF o = "raise" THEN OnRaise(r) ELSE AfterImport(r)]
    /\ UNCHANGED <<schedVars, response, last_full_scrape, dataVars>>

\* recent_articles = database.get_articles_added_since(hours=2); should_scrape
StepCount(c) ==
    /\ runs[c].pc = "count"
    /\ LET r == runs[c] IN
       \/ runs' = [runs EXCEPT ![c] = OnRaise(r)]
       \/ \E n \in RecentCounts :
             runs' = [runs EXCEPT ![c] =
                        [r EXCEPT !.recent = n,
                                  !.pc = IF ShouldScrape(r.force, n)
                                         THEN "scrape" ELSE "check"]]
    /\ UNCHANGED <<schedVars, response, last_full_scrape, dataVars>>

\* datetime.now() at an assignment of _last_full_scrape: a reading of the
\* clock that differs from the value it replaces (1 and 2 stand for two readings)
Now(stamp) == IF stamp = 1 THEN 2 ELSE 1

\* the assignment placed before the call of scrape_all_sources
StampBeforeScrape(stamp, o) == Now(stamp)

\* _last_full_scrape after `scraper.scrape_all_sources()` ended with outcome o:
\* the assignment on the next line runs only when the call returned
StampAfterScrape(stamp, o) == IF o = "raise" THEN stamp ELSE Now(stamp)

\* scraper.scrape_all_sources(); _last_full_scrape = datetime.now()
StepScrape(c) ==
    /\ runs[c].pc = "scrape"
    /\ LET r == [runs[c] EXCEPT !.scrapeCalls = @ + 1] IN
       \E o \in Outcomes :
          /\ runs' = [runs EXCEPT ![c] =
                        IF o = "raise" THEN OnRaise(r)
                        ELSE [r EXCEPT !.pc = "check"]]
          /\ last_full_scrape' = StampAfterScrape(last_full_scrape, o)
    /\ UNCHANGED <<schedVars, response, dataVars>>

\* `if database.has_unclustered_articles():` is entered whatever was reported
AfterCheckAlwaysClusters(r, has) ==
    [r EXCEPT !.has = IF has THEN "yes" ELSE "no", !.pc = "cluster"]

\* `if database.has_unclustered_articles(): ... else: ...` of both functions
AfterCheck(r, has) ==
    IF has THEN [r EXCEPT !.has = "yes", !.pc = "cluster"]
    ELSE IF r.kind = "pipeline"
         THEN [r EXCEPT !.has = "no", !.pc = "stats"]
         ELSE Return([r EXCEPT !.has = "no"])

\* `if clusters: synthesizer.run_synthesis(clusters)`
AfterCluster(r, nonEmpty) ==
    IF nonEmpty THEN [r EXCEPT !.clusters = "some", !.pc = "synth"]
    ELSE [r EXCEPT !.clusters = "empty", !.pc = "stats"]

\* database.has_unclustered_articles()
StepCheck(c) ==
    /\ runs[c].pc = "check"
    /\ LET r == [runs[c] EXCEPT !.checked = TRUE] IN
       \/ runs' = [runs EXCEPT ![c] = OnRaise(r)]
       \/ \E has \in BOOLEAN :
             runs' = [runs EXCEPT ![c] = AfterCheck(r, has)]
    /\ UNCHANGED <<schedVars, response, last_full_scrape, dataVars>>

\* clusters = clusterer.run_clustering(); if clusters: ...
StepCluster(c) ==
    /\ runs[c].pc = "cluster"
    /\ LET r == [runs[c] EXCEPT !.clusterCalls = @ + 1] IN
       \/ runs' = [runs EXCEPT ![c] = OnRaise(r)]
       \/ \E nonEmpty \in BOOLEAN :
             runs' = [runs EXCEPT ![c] = AfterCluster(r, nonEmpty)]
    /\ UNCHANGED <<schedVars, response, last_full_scrape, dataVars>>

\* synthesizer.run_synthesis(clusters)
StepSynth(c) ==
    /\ runs[c].pc = "synth"
    /\ LET r == [runs[c] EXCEPT !.synthCalls = @ + 1] IN
       \E o \in Outcomes :
          runs' = [runs EXCEPT ![c] =
                     IF o = "raise" THEN OnRaise(r)
                     ELSE [r EXCEPT !.pc = "stats"]]
    /\ UNCHANGED <<schedVars, response, last_full_scrape, dataVars>>

\* stats = database.get_stats(); print(...)
StepStats(c) ==
    /\ runs[c].pc = "stats"
    /\ LET r == runs[c] IN
       \E o \in Outcomes :
          runs' = [runs EXCEPT ![c] =
                     IF o = "raise" THEN OnRaise(r) ELSE Return(r)]
    /\ UNCHANGED <<schedVars, response, last_full_scrape, dataVars>>

\* ------------------------------------------------------------------------
\* init_scheduler, the timers of the BackgroundScheduler, and shutdown
\* ------------------------------------------------------------------------
\* os.environ.get('ENABLE_SCHEDULER', '').lower() != 'true' is false
SchedulerEnabledAnyValue(v) == v # ""

SchedulerEnabled(v) == Lower(v) = "true"

NoInstance == [state |-> "absent", jobs |-> {}]

\* full_pipeline registered with run_pipeline_job itself, as initial_pipeline is
JobActionNeverForced(j) ==
    CASE j = "initial_pipeline" -> StartPipeline(FALSE)
      [] j = "full_pipeline"    -> StartPipeline(FALSE)
      [] j = "quick_pipeline"   -> StartQuick

\* the function a job id was registered with, as a fresh invocation
JobAction(j) ==
    CASE j = "initial_pipeline" -> StartPipeline(FALSE)
      [] j = "full_pipeline"    -> StartPipeline(TRUE)
      [] j = "quick_pipeline"   -> StartQuick

\* 'date' triggers fire once, 'interval' triggers repeat
OneShot(j) == j = "initial_pipeline"

\* the timers that can still fire for job id j
LiveTimers(j) ==
    {s \in Instances : instances[s].state = "running" /\ j \in instances[s].jobs}

\* instances of job j of scheduler s that are executing
RunningInstances(s, j) == IF InProgress(runs[<<s, j>>]) THEN 1 ELSE 0

\* one call of init_scheduler()
InitScheduler ==
    /\ startCalls < MaxStarts
    /\ startCalls' = startCalls + 1
    /\ IF ~SchedulerEnabled(ENABLE_SCHEDULER)
       THEN UNCHANGED <<scheduler, instances, created, atexitHooks, stopped>>
       ELSE \E o \in {"ok", "import_error", "start_error"} :
          LET n == created + 1 IN
          CASE o = "import_error" ->
                  \* raised before BackgroundScheduler() was assigned
                  UNCHANGED <<scheduler, instances, created, atexitHooks, stopped>>
            [] o = "start_error" ->
                  \* add_job or start raised: the global keeps the new object
                  /\ scheduler' = n
                  /\ created' = n
                  /\ instances' = [instances EXCEPT ![n] =
                                     [state |-> "pending", jobs |-> JobIds]]
                  /\ stopped' = FALSE
                  /\ UNCHANGED atexitHooks
            [] o = "ok" ->
                  /\ scheduler' = n
                  /\ created' = n
                  /\ instances' = [instances EXCEPT ![n] =
                                     [state |-> "running", jobs |-> JobIds]]
                  /\ atexitHooks' = atexitHooks + 1
                  /\ stopped' = FALSE
    /\ UNCHANGED <<ENABLE_SCHEDULER, runs, response, last_full_scrape, dataVars>>

\* the timer of job j of scheduler s fires: the job is handed to the
\* scheduler's thread pool unless max_instances of it are executing
Fire(s, j) ==
    /\ instances[s].state = "running"
    /\ j \in instances[s].jobs
    /\ RunningInstances(s, j) < MaxInstances
    /\ Cardinality(Running) < MaxRunning
    /\ runs' = [runs EXCEPT ![<<s, j>>] = JobAction(j)]
    /\ instances' = [instances EXCEPT ![s].jobs =
                       IF OneShot(j) THEN @ \ {j} ELSE @]
    /\ UNCHANGED <<ENABLE_SCHEDULER, scheduler, created, startCalls,
                   atexitHooks, stopped, response, last_full_scrape, dataVars>>

\* the job function came back to the pool thread (normally or with an
\* exception, which the executor logs): the instance is released
JobFinish(c) ==
    /\ c \in SchedCtx
    /\ Ended(runs[c])
    /\ runs' = [runs EXCEPT ![c] = IdleRun]
    /\ UNCHANGED <<schedVars, response, last_full_scrape, dataVars>>

\* a callback registered at line 135 runs: scheduler.shutdown() on whatever
\* the global names at that moment
Shutdown ==
    /\ atexitHooks > 0
    /\ atexitHooks' = atexitHooks - 1
    /\ stopped' = TRUE
    /\ instances' = IF instances[scheduler].state = "running"
                    THEN [instances EXCEPT ![scheduler].state = "shutdown"]
                    ELSE instances   \* SchedulerNotRunningError
    /\ UNCHANGED <<ENABLE_SCHEDULER, scheduler, created, startCalls, runs,
                   response, last_full_scrape, dataVars>>

\* ------------------------------------------------------------------------
\* POST /api/refresh
\* ------------------------------------------------------------------------
NoResponse == [status |-> 0, body |-> "none"]

\* the request arrives: force is parsed and run_pipeline_job(force) is called
\* on the request thread
ApiRefreshCall(force) ==
    /\ runs[ReqCtx].pc = "idle"
    /\ Cardinality(Running) < MaxRunning
    /\ runs' = [runs EXCEPT ![ReqCtx] = StartPipeline(force)]
    /\ response' = NoResponse
    /\ UNCHANGED <<schedVars, last_full_scrape, dataVars>>

\* run_pipeline_job came back; stats = database.get_stats(); jsonify
ApiRefreshRespond ==
    /\ Ended(runs[ReqCtx])
    /\ \E o \in Outcomes :
          response' = IF runs[ReqCtx].pc = "raised" \/ o = "raise"
                      THEN [status |-> 500, body |-> "error"]
                      ELSE [status |-> 200, body |-> "completed"]
    /\ runs' = [runs EXCEPT ![ReqCtx] = IdleRun]
    /\ UNCHANGED <<schedVars, last_full_scrape, dataVars>>

\* ------------------------------------------------------------------------
\* The specification
\* ------------------------------------------------------------------------
Init ==
    /\ ENABLE_SCHEDULER \in EnvValues
    /\ scheduler = None
    /\ instances = [s \in Instances |-> NoInstance]
    /\ created = 0
    /\ startCalls = 0
    /\ atexitHooks = 0
    /\ stopped = FALSE
    /\ runs = [c \in Ctx |-> IdleRun]
    /\ response = NoResponse
    /\ last_full_scrape = None
    /\ store = NoStore
    /\ held = NoHeld
    /\ classifier = NoClassifier
    /\ migration = NoMigration
    /\ cli = NoCli
    /\ ranker = NoRanker

Next ==
    \/ InitScheduler
    \/ Shutdown
    \/ \E s \in Instances, j \in JobIds : Fire(s, j)
    \/ \E c \in Ctx : JobFinish(c)
    \/ \E f \in BOOLEAN : ApiRefreshCall(f)
    \/ ApiRefreshRespond
    \/ \E c \in Ctx : StepImport(c)
    \/ \E c \in Ctx : StepCount(c)
    \/ \E c \in Ctx : StepScrape(c)
    \/ \E c \in Ctx : StepCheck(c)
    \/ \E c \in Ctx : StepCluster(c)
    \/ \E c \in Ctx : StepSynth(c)
    \/ \E c \in Ctx : StepStats(c)

Spec == Init /\ [][Next]_vars

\* ------------------------------------------------------------------------
\* The running application: the state after `import app` with the scheduler
\* enabled and started by the init_scheduler() call of line 140, followed by
\* timer firings and requests only
\* ------------------------------------------------------------------------
InitStarted ==
    /\ ENABLE_SCHEDULER \in {v \in EnvValues : SchedulerEnabled(v)}
    /\ scheduler = 1
    /\ instances = [s \in Instances |->
                      IF s = 1 THEN [state |-> "running", jobs |-> JobIds]
                      ELSE NoInstance]
    /\ created = 1
    /\ startCalls = 1
    /\ atexitHooks = 1
    /\ stopped = FALSE
    /\ runs = [c \in Ctx |-> IdleRun]
    /\ response = NoResponse
    /\ last_full_scrape = None
    /\ store = NoStore
    /\ held = NoHeld
    /\ classifier = NoClassifier
    /\ migration = NoMigration
    /\ cli = NoCli
    /\ ranker = NoRanker

NextRun ==
    \/ \E s \in Instances, j \in JobIds : Fire(s, j)
    \/ \E c \in Ctx : JobFinish(c)
    \/ \E f \in BOOLEAN : ApiRefreshCall(f)
    \/ ApiRefreshRespond
    \/ \E c \in Ctx : StepImport(c)
    \/ \E c \in Ctx : StepCount(c)
    \/ \E c \in Ctx : StepScrape(c)
    \/ \E c \in Ctx : StepCheck(c)
    \/ \E c \in Ctx : StepCluster(c)
    \/ \E c \in Ctx : StepSynth(c)
    \/ \E c \in Ctx : StepStats(c)

SpecRun == InitStarted /\ [][NextRun]_vars

\* ------------------------------------------------------------------------
\* The scheduler alone: starts, shutdown and timers, with a job's function
\* taken as one step from its first statement to the release of its instance
\* ------------------------------------------------------------------------
JobRunsToEnd(c) ==
    /\ c \in SchedCtx
    /\ runs[c].pc = "import"
    /\ runs' = [runs EXCEPT ![c] = IdleRun]
    /\ UNCHANGED <<schedVars, response, last_full_scrape, dataVars>>

NextSched ==
    \/ InitScheduler
    \/ Shutdown
    \/ \E s \in Instances, j \in JobIds : Fire(s, j)
    \/ \E c \in SchedCtx : JobRunsToEnd(c)

SpecSched == Init /\ [][NextSched]_vars

\* ------------------------------------------------------------------------
\* The scheduled jobs of the started application under fair scheduling: the
\* interval triggers keep firing, a firing that finds a free instance and a
\* free pool thread starts the job, every started call goes on to its end and
\* the pool thread releases the instance
\* ------------------------------------------------------------------------
Recurring == {j \in JobIds : ~OneShot(j)}

StepOf(c) ==
    \/ StepImport(c)
    \/ StepCount(c)
    \/ StepScrape(c)
    \/ StepCheck(c)
    \/ StepCluster(c)
    \/ StepSynth(c)
    \/ StepStats(c)

NextJobs ==
    \/ \E s \in Instances, j \in JobIds : Fire(s, j)
    \/ \E c \in SchedCtx : JobFinish(c)
    \/ \E c \in SchedCtx : StepOf(c)

\* the scheduler that InitStarted holds, created by the call of line 140
Started == {s \in Instances : s <= created}

FairJobs ==
    /\ \A j \in Recurring : SF_vars(\E s \in Started : Fire(s, j))
    /\ \A j \in JobIds : WF_vars(\E s \in Started : JobFinish(<<s, j>>))
    /\ \A j \in JobIds : WF_vars(\E s \in Started : StepOf(<<s, j>>))

\* the scheduled jobs of the started application, no fairness assumed
SpecJobs == InitStarted /\ [][NextJobs]_vars

SpecJobsFair == SpecJobs /\ FairJobs

\* ------------------------------------------------------------------------
\* The pipeline over the contents of the Store.  database, scraper, clusterer
\* and synthesizer are imported by app.py; what their calls do to Items and
\* Records is taken from the specification: the Ingestor creates Items with a
\* null group id, has_unclustered_articles reports whether such an Item
\* exists, the Grouper reads the ungrouped Items and returns zero or more
\* non-empty disjoint Groups of them, the Enricher makes one Record of each
\* Group and marks the Group's Items with it (an atomic mark that may be
\* repeated).  Reading the ungrouped Items and marking them are separate
\* operations of the Store.
\* ------------------------------------------------------------------------
Ungrouped(st) == {i \in ItemIds : st.items[i] = None}

HasUngrouped(st) == Ungrouped(st) # {}

\* the sets of non-empty disjoint Groups over the Items U
Groupings(U) ==
    {G \in SUBSET (SUBSET U \ {{}}) :
        \A g1 \in G, g2 \in G : g1 # g2 => g1 \cap g2 = {}}

\* the Records of the Groups G appended to the Store, each Item of a Group
\* marked with the id of its Record
RECURSIVE Enrich(_, _)
Enrich(st, G) ==
    IF G = {} THEN st
    ELSE LET g  == CHOOSE x \in G : TRUE
             id == Cardinality(st.records) + 1
         IN Enrich([st EXCEPT !.records = @ \cup {[id |-> id, items |-> g]},
                              !.items = [i \in ItemIds |->
                                           IF i \in g THEN id ELSE @[i]]],
                   G \ {g})

\* scraper.scrape_all_sources() with its Items; _last_full_scrape = now
StoreScrape(c) ==
    /\ runs[c].pc = "scrape"
    /\ LET r == [runs[c] EXCEPT !.scrapeCalls = @ + 1] IN
       \E o \in Outcomes :
          /\ runs' = [runs EXCEPT ![c] =
                        IF o = "raise" THEN OnRaise(r)
                        ELSE [r EXCEPT !.pc = "check"]]
          /\ last_full_scrape' = StampAfterScrape(last_full_scrape, o)
          /\ \E new \in SUBSET {i \in ItemIds : store.items[i] = Absent} :
                store' = [store EXCEPT
                            !.items = [i \in ItemIds |->
                                         IF i \in new THEN None ELSE @[i]],
                            !.ingestedBy = IF new = {} THEN @ ELSE @ \cup {c}]
    /\ UNCHANGED <<schedVars, response, held, ranker, llmVars, cli>>

\* database.has_unclustered_articles() answered from the Store
StoreCheck(c) ==
    /\ runs[c].pc = "check"
    /\ LET r == [runs[c] EXCEPT !.checked = TRUE] IN
       \/ runs' = [runs EXCEPT ![c] = OnRaise(r)]
       \/ runs' = [runs EXCEPT ![c] = AfterCheck(r, HasUngrouped(store))]
    /\ UNCHANGED <<schedVars, response, last_full_scrape, dataVars>>

\* clusters = clusterer.run_clustering() over the ungrouped Items
StoreCluster(c) ==
    /\ runs[c].pc = "cluster"
    /\ LET r == [runs[c] EXCEPT !.clusterCalls = @ + 1] IN
       \/ /\ runs' = [runs EXCEPT ![c] = OnRaise(r)]
          /\ held' = held
       \/ \E G \in Groupings(Ungrouped(store)) :
             /\ runs' = [runs EXCEPT ![c] = AfterCluster(r, G # {})]
             /\ held' = [held EXCEPT ![c] = G]
    /\ UNCHANGED <<schedVars, response, last_full_scrape, store, ranker, llmVars, cli>>

\* synthesizer.run_synthesis(clusters): a Record for every Group held; when
\* it raises, the Groups enriched before the failure keep their Records
StoreSynth(c) ==
    /\ runs[c].pc = "synth"
    /\ LET r == [runs[c] EXCEPT !.synthCalls = @ + 1] IN
       \/ /\ runs' = [runs EXCEPT ![c] = [r EXCEPT !.pc = "stats"]]
          /\ store' = Enrich(store, held[c])
       \/ \E done \in SUBSET held[c] :
             /\ done # held[c]
             /\ runs' = [runs EXCEPT ![c] = OnRaise(r)]
             /\ store' = Enrich(store, done)
    /\ held' = [held EXCEPT ![c] = {}]
    /\ UNCHANGED <<schedVars, response, last_full_scrape, ranker, llmVars, cli>>

\* the Stores the application may start from: Items ingested or not, none
\* grouped yet, or Item 1 already in a Record of its own
InitialStores ==
    {[NoStore EXCEPT !.items = it] : it \in [ItemIds -> {Absent, None}]}
       \cup {[NoStore EXCEPT !.items = [it EXCEPT ![1] = 1],
                             !.records = {[id |-> 1, items |-> {1}]}] :
                it \in [ItemIds -> {Absent, None}]}

\* the started application over a Store
InitStore ==
    /\ ENABLE_SCHEDULER = "True"
    /\ scheduler = 1
    /\ instances = [s \in Instances |->
                      IF s = 1 THEN [state |-> "running", jobs |-> JobIds]
                      ELSE NoInstance]
    /\ created = 1
    /\ startCalls = 1
    /\ atexitHooks = 1
    /\ stopped = FALSE
    /\ runs = [c \in Ctx |-> IdleRun]
    /\ response = NoResponse
    /\ last_full_scrape = None
    /\ store \in InitialStores
    /\ held = NoHeld
    /\ classifier = NoClassifier
    /\ migration = NoMigration
    /\ cli = NoCli
    /\ ranker = NoRanker

\* the invocation of the initial job, and the request that follows it
FirstCall == <<1, "initial_pipeline">>

\* POST /api/refresh once the initial job has come back: the second of two
\* calls of run_pipeline_job in succession; the Store's contents are noted
SecondCall(force) ==
    /\ Ended(runs[FirstCall])
    /\ runs[ReqCtx].pc = "idle"
    /\ runs' = [runs EXCEPT ![ReqCtx] = StartPipeline(force)]
    /\ store' = [store EXCEPT !.itemsBefore = store.items,
                              !.recordsBefore = store.records]
    /\ UNCHANGED <<schedVars, response, last_full_scrape, held, ranker, llmVars, cli>>

StoreStepOf(c) ==
    \/ StepImport(c)
    \/ StepCount(c)
    \/ StoreScrape(c)
    \/ StoreCheck(c)
    \/ StoreCluster(c)
    \/ StoreSynth(c)
    \/ StepStats(c)

\* run_pipeline_job twice in succession: the initial job, then a request
NextTwice ==
    \/ Fire(1, "initial_pipeline")
    \/ \E f \in BOOLEAN : SecondCall(f)
    \/ \E c \in {FirstCall, ReqCtx} : StoreStepOf(c)

SpecTwice == InitStore /\ [][NextTwice]_vars

\* a request and the scheduled quick job in any interleaving
NextStore ==
    \/ Fire(1, "quick_pipeline")
    \/ JobFinish(<<1, "quick_pipeline">>)
    \/ \E f \in BOOLEAN : ApiRefreshCall(f)
    \/ ApiRefreshRespond
    \/ \E c \in {<<1, "quick_pipeline">>, ReqCtx} : StoreStepOf(c)

SpecStore == InitStore /\ [][NextStore]_vars

\* ------------------------------------------------------------------------
\* calculate_relevance_score(story, sources)
\* ------------------------------------------------------------------------
RELEVANCE_BASE_SCORE == 50
RELEVANCE_WEIGHT_SOURCES == 15
RELEVANCE_WEIGHT_DIVERSITY == 20
RELEVANCE_WEIGHT_RECENCY == 2

\* longest list of sources tried
MaxSources == 3
\* ages around zero tried, in quarters of an hour, on both sides of now
MaxQuarters == 6

\* the unit of the ages: hours_old = quarters / QuartersPerHour
QuartersPerHour == 4

\* ages in whole hours tried beside the ones around zero
SampleHours == {1, 2, 24, 25, 100}

\* datetime.now() - created, in quarters of an hour; negative when the
\* creation timestamp lies in the future
Ages ==
    (-MaxQuarters .. MaxQuarters)
       \cup {QuartersPerHour * h + d : h \in SampleHours, d \in {-1, 0, 1}}

\* a source dict without the key 'source_lean'
NoKey == "<no source_lean key>"

\* values of source['source_lean']: the four known leans, one the site does
\* not know, and the absent key
LeanValues == {"left", "center", "right", "international", "far-left", NoKey}

\* story.get('created_at', ''): a naive ISO timestamp, the default '' of an
\* absent key, None, a string that is not a timestamp, or an ISO timestamp
\* with a UTC offset
CreatedAtForms == {"iso", "absent", "none", "garbage", "aware"}

Stories ==
    {[form |-> "iso", quartersOld |-> q] : q \in Ages}
       \cup {[form |-> f, quartersOld |-> 0] : f \in CreatedAtForms \ {"iso"}}

RECURSIVE SeqsUpTo(_, _)
SeqsUpTo(S, n) ==
    IF n = 0 THEN {<<>>}
    ELSE LET shorter == SeqsUpTo(S, n - 1) IN
         shorter \cup {Append(q, x) : q \in {t \in shorter : Len(t) = n - 1}, x \in S}

SourceLists == SeqsUpTo(LeanValues, MaxSources)

Max(a, b) == IF a >= b THEN a ELSE b
Min(a, b) == IF a <= b THEN a ELSE b

\* s.get('source_lean', 'center')
SourceLean(source) == IF source = NoKey THEN "center" ELSE source

\* division rounding toward minus infinity
IntFloor(num, den) == num \div den

\* int(x) of a float x = num / den, den > 0: rounds toward zero
IntTrunc(num, den) == IF num >= 0 THEN num \div den ELSE -((-num) \div den)

\* datetime.fromisoformat raises ValueError on '' and on a string that is not
\* a timestamp, TypeError on None; datetime.now() - created raises TypeError
\* when created carries a UTC offset
HoursOldRaises(story) == story.form # "iso"

\* the exception the timestamp arithmetic raises for a story, "none" when
\* it raises nothing
ExceptionOf(story) ==
    CASE story.form \in {"absent", "garbage"} -> "ValueError"
      [] story.form \in {"none", "aware"}      -> "TypeError"
      [] OTHER                                 -> "none"

\* an except clause that names ValueError only
CaughtValueErrorOnly == {"ValueError"}

\* except (ValueError, TypeError)
Caught == {"ValueError", "TypeError"}

\* the exception that leaves calculate_relevance_score, "none" when it
\* returns
Escapes(story) ==
    IF ExceptionOf(story) \in Caught THEN "none" ELSE ExceptionOf(story)

\* the leans group_sources_by_lean keeps a list for
GroupedLeans == {"left", "center", "right", "international"}

\* unique_leans = set(s.get('source_lean', 'center') for s in sources)
UniqueLeans(sources) == {SourceLean(sources[i]) : i \in DOMAIN sources}

\* the result wrapped into 0..100 instead of cut off
ClampWraps(score) == score % 101

\* the result cut off above only
ClampNoFloor(score) == Min(100, score)

\* max(0, min(100, score))
Clamp(score) == Max(0, Min(100, score))

\* calculate_relevance_score
Score(story, sources) ==
    LET base         == RELEVANCE_BASE_SCORE
        source_count == Len(sources)
        withSources  == base + source_count * RELEVANCE_WEIGHT_SOURCES
        unique_leans == UniqueLeans(sources)
        withLeans    == withSources
                          + Cardinality(unique_leans) * RELEVANCE_WEIGHT_DIVERSITY
        withRecency  ==
            IF HoursOldRaises(story) THEN withLeans
            ELSE withLeans - IntTrunc(story.quartersOld * RELEVANCE_WEIGHT_RECENCY,
                                      QuartersPerHour)
    IN Clamp(withRecency)

\* story['relevance_score'] = calculate_relevance_score(story, story['sources'])
CalculateRelevanceScore ==
    /\ ranker.pc = "input"
    /\ ranker' = IF Escapes(ranker.story) # "none"
                  THEN [ranker EXCEPT !.pc = "raised"]
                  ELSE [ranker EXCEPT !.pc = "scored",
                                      !.relevance_score =
                                          Score(ranker.story, ranker.sources)]
    /\ UNCHANGED <<schedVars, runs, response, last_full_scrape, store, held, llmVars, cli>>

\* a story and its sources as the routes hand them to the function
InitScore ==
    /\ ENABLE_SCHEDULER = ""
    /\ scheduler = None
    /\ instances = [s \in Instances |-> NoInstance]
    /\ created = 0
    /\ startCalls = 0
    /\ atexitHooks = 0
    /\ stopped = FALSE
    /\ runs = [c \in Ctx |-> IdleRun]
    /\ response = NoResponse
    /\ last_full_scrape = None
    /\ store = NoStore
    /\ held = NoHeld
    /\ classifier = NoClassifier
    /\ migration = NoMigration
    /\ cli = NoCli
    /\ ranker \in {[pc |-> "input", story |-> st, sources |-> src,
                    relevance_score |-> -1] : st \in Stories, src \in SourceLists}

NextScore == CalculateRelevanceScore

SpecScore == InitScore /\ [][NextScore]_vars

\* ------------------------------------------------------------------------
\* stories.sort(key=lambda s: s['relevance_score'], reverse=True)
\* ------------------------------------------------------------------------
\* longest list of stories ranked
MaxRanked == 3

\* relevance scores the stories of a list carry
RankScores == {0, 50, 85, 100}

\* the stories of a page as database.get_stories returned them, each with
\* its position in that list as id and the score the loop gave it
RankedLists(n) ==
    {[i \in 1..n |-> [id |-> i, relevance_score |-> f[i]]] :
        f \in [1..n -> RankScores]}

Retrievals == UNION {RankedLists(n) : n \in 0..MaxRanked}

RECURSIVE Reverse(_)
Reverse(seq) ==
    IF seq = <<>> THEN <<>> ELSE Append(Reverse(Tail(seq)), Head(seq))

\* x put into an ascending list behind every element that is not greater
RECURSIVE InsertAscending(_, _)
InsertAscending(x, sorted) ==
    IF sorted = <<>> THEN <<x>>
    ELSE IF Head(sorted).relevance_score <= x.relevance_score
         THEN <<Head(sorted)>> \o InsertAscending(x, Tail(sorted))
         ELSE <<x>> \o sorted

\* list.sort(key=...): ascending, equal keys keep their order
RECURSIVE SortAscending(_)
SortAscending(seq) ==
    IF seq = <<>> THEN <<>>
    ELSE InsertAscending(seq[Len(seq)], SortAscending(SubSeq(seq, 1, Len(seq) - 1)))

\* the list sorted ascending and then turned round
SortAscendingThenReverse(stories) == Reverse(SortAscending(stories))

\* list.sort(key=..., reverse=True): the list is turned round, sorted
\* ascending with equal keys in order, and turned round again
SortDescending(stories) == Reverse(SortAscending(Reverse(stories)))

\* the sort of index() and api_stories()
RankStories ==
    /\ ranker.pc = "listed"
    /\ ranker' = [ranker EXCEPT !.pc = "ranked",
                                !.stories = SortDescending(ranker.stories)]
    /\ UNCHANGED <<schedVars, runs, response, last_full_scrape, store, held, llmVars, cli>>

InitRank ==
    /\ ENABLE_SCHEDULER = ""
    /\ scheduler = None
    /\ instances = [s \in Instances |-> NoInstance]
    /\ created = 0
    /\ startCalls = 0
    /\ atexitHooks = 0
    /\ stopped = FALSE
    /\ runs = [c \in Ctx |-> IdleRun]
    /\ response = NoResponse
    /\ last_full_scrape = None
    /\ store = NoStore
    /\ held = NoHeld
    /\ classifier = NoClassifier
    /\ migration = NoMigration
    /\ cli = NoCli
    /\ ranker \in {[pc |-> "listed", retrieved |-> l, stories |-> l] :
                      l \in Retrievals}

NextRank == RankStories

SpecRank == InitRank /\ [][NextRank]_vars

\* ------------------------------------------------------------------------
\* pipeline/migrate_categories.py: call_llm and classify_story
\* ------------------------------------------------------------------------
LLM_MAX_RETRIES == 3

\* longest provider answer put together from ResponseAlphabet
MaxLen == 3

\* a text is the sequence of its characters
Other == <<"o", "t", "h", "e", "r">>

VALID_CATEGORIES ==
    {<<"p", "o", "l", "i", "t", "i", "c", "s">>,
     <<"e", "c", "o", "n", "o", "m", "y">>,
     <<"t", "e", "c", "h">>,
     <<"s", "p", "o", "r", "t", "s">>,
     <<"c", "u", "l", "t", "u", "r", "e">>,
     <<"w", "o", "r", "l", "d">>,
     <<"s", "c", "i", "e", "n", "c", "e">>,
     <<"o", "t", "h", "e", "r">>}

Whitespace == {" ", "\n"}

LowercaseLetters ==
    {"a", "b", "c", "d", "e", "f", "g", "h", "i",
     "j", "k", "l", "m", "n", "o", "p", "q", "r",
     "s", "t", "u", "v", "w", "x", "y", "z"}

\* the capitals the answers use and what str.lower() makes of them
Lowered == [P |-> "p", T |-> "t", E |-> "e", C |-> "c", H |-> "h"]

LowerChar(ch) == IF ch \in DOMAIN Lowered THEN Lowered[ch] ELSE ch

\* str.lower()
StrLower(text) == [i \in DOMAIN text |-> LowerChar(text[i])]

RECURSIVE LStrip(_)
LStrip(text) ==
    IF text # <<>> /\ Head(text) \in Whitespace THEN LStrip(Tail(text)) ELSE text

\* str.strip()
StrStrip(text) == Reverse(LStrip(Reverse(LStrip(text))))

IsLowercaseLetter(ch) == ch \in LowercaseLetters

\* re.sub(r'[^a-z]', '', category)
OnlyLowercaseLetters(text) == SelectSeq(text, IsLowercaseLetter)

\* the answer stripped and cleaned without lower-casing it first
NormalizeKeepsCase(answer) == OnlyLowercaseLetters(StrStrip(answer))

\* category = response.lower().strip(); category = re.sub(...)
Normalize(answer) == OnlyLowercaseLetters(StrStrip(StrLower(answer)))

\* the cleaned answer returned whatever it is
ValidateNothing(category) == category

\* if category in VALID_CATEGORIES: return category; return "other"
Validate(category) == IF category \in VALID_CATEGORIES THEN category ELSE Other

\* a value that is None or a str
NoneStr == [none |-> TRUE, text |-> <<>>]
Str(text) == [none |-> FALSE, text |-> text]

\* a test for None only
TruthyIfNotNone(result) == ~result.none

\* `if result:` and `if not response:`
Truthy(result) == ~result.none /\ result.text # <<>>

\* answers of a provider tried by name
SampleResponses ==
    {<<" ", " ", "P", "o", "l", "i", "t", "i", "c", "s", "!", "!", " ">>,
     <<"e", "n", "t", "e", "r", "t", "a", "i", "n", "m", "e", "n", "t">>,
     <<"T", "E", "C", "H">>,
     <<"T", "e", "c", "h", ".", "\n">>,
     <<"!", "!", "!">>,
     <<"s", "c", "i", " ", "e", "n", "c", "e">>,
     <<"t", "h", "e", " ", "t", "e", "c", "h">>,
     <<"o", "t", "h", "e", "r">>,
     <<>>,
     <<" ", " ">>,
     <<"p", "o", "l", "i", "t", "i", "c", "s">>,
     <<"e", "c", "o", "n", "o", "m", "y">>,
     <<"t", "e", "c", "h">>,
     <<"s", "p", "o", "r", "t", "s">>,
     <<"c", "u", "l", "t", "u", "r", "e">>,
     <<"w", "o", "r", "l", "d">>,
     <<"s", "c", "i", "e", "n", "c", "e">>}

ResponseAlphabet == {"t", "T", "!", " "}

\* the texts a provider may put into the answer field
Responses == SampleResponses \cup SeqsUpTo(ResponseAlphabet, MaxLen)

\* the texts tried in a batch run
BatchResponses ==
    {<<" ", " ", "P", "o", "l", "i", "t", "i", "c", "s", "!", "!", " ">>,
     <<"e", "n", "t", "e", "r", "t", "a", "i", "n", "m", "e", "n", "t">>,
     <<"t", "e", "c", "h">>,
     <<>>}

\* what the provider does with one request: the transport fails, or an
\* answer comes with a success or a failure status and a body that either
\* has the answer field with a text in it or has not
Behaviours(texts) ==
    {[transport_ok |-> FALSE, status_ok |-> FALSE, body |-> NoneStr]}
       \cup {[transport_ok |-> TRUE, status_ok |-> ok, body |-> b] :
                 ok \in BOOLEAN, b \in {NoneStr} \cup {Str(t) : t \in texts}}

\* an except clause that names the errors of the requests library only
CaughtRequestErrorsOnly == {"ConnectionError", "HTTPError"}

\* except Exception
CaughtByProvider == {"ConnectionError", "HTTPError", "ValueError", "KeyError"}

\* the value a provider function hands back: whether it posted a request,
\* the exception that left it ("none" when it returned) and its result
Handed(posted, exc, text) ==
    [posted |-> posted,
     raised |-> IF exc \in CaughtByProvider THEN "none" ELSE exc,
     result |-> IF exc = "none" THEN Str(StrStrip(text)) ELSE NoneStr]

\* call_ollama
CallOllama(b) ==
    Handed(TRUE,
           IF ~b.transport_ok THEN "ConnectionError"
           ELSE IF ~b.status_ok THEN "HTTPError"
           ELSE IF b.body.none THEN "ValueError"
           ELSE "none",
           b.body.text)

\* a key check that lets every key through
KeyNeverMissing(key) == FALSE

\* if not GROQ_API_KEY: / if not TOGETHER_API_KEY:
KeyMissing(key) == key = ""

\* call_groq: the status of the answer is not looked at
CallGroq(key, b) ==
    IF KeyMissing(key) THEN [posted |-> FALSE, raised |-> "none", result |-> NoneStr]
    ELSE Handed(TRUE,
                IF ~b.transport_ok THEN "ConnectionError"
                ELSE IF b.body.none THEN "KeyError"
                ELSE "none",
                b.body.text)

\* call_together
CallTogether(key, b) ==
    IF KeyMissing(key) THEN [posted |-> FALSE, raised |-> "none", result |-> NoneStr]
    ELSE Handed(TRUE,
                IF ~b.transport_ok THEN "ConnectionError"
                ELSE IF b.body.none THEN "KeyError"
                ELSE "none",
                b.body.text)

\* the keys of the dict providers in call_llm
Providers == {"ollama", "groq", "together"}

\* LLM_PROVIDER, GROQ_API_KEY and TOGETHER_API_KEY: each provider, the
\* hosted ones with and without their key, and a name call_llm does not know
Configs ==
    {[LLM_PROVIDER |-> "ollama", GROQ_API_KEY |-> "", TOGETHER_API_KEY |-> ""],
     [LLM_PROVIDER |-> "groq", GROQ_API_KEY |-> "", TOGETHER_API_KEY |-> ""],
     [LLM_PROVIDER |-> "groq", GROQ_API_KEY |-> "gsk", TOGETHER_API_KEY |-> ""],
     [LLM_PROVIDER |-> "together", GROQ_API_KEY |-> "", TOGETHER_API_KEY |-> ""],
     [LLM_PROVIDER |-> "together", GROQ_API_KEY |-> "", TOGETHER_API_KEY |-> "tk"],
     [LLM_PROVIDER |-> "openai", GROQ_API_KEY |-> "gsk", TOGETHER_API_KEY |-> "tk"]}

\* func(prompt)
Func(config, b) ==
    CASE config.LLM_PROVIDER = "ollama"   -> CallOllama(b)
      [] config.LLM_PROVIDER = "groq"     -> CallGroq(config.GROQ_API_KEY, b)
      [] config.LLM_PROVIDER = "together" -> CallTogether(config.TOGETHER_API_KEY, b)

\* classify_story waiting to be called under a configuration
IdleClassifier(config) ==
    [pc |-> "idle", config |-> config, attempt |-> 0, calls |-> 0, posts |-> 0,
     sleeps |-> 0, status_ok |-> FALSE, body |-> NoneStr, answers |-> <<>>,
     result |-> NoneStr,
     category |-> <<>>]

\* the texts the provider answers with
AnswerTexts == IF migration.pc = "off" THEN Responses ELSE BatchResponses

\* classify_story builds the prompt and calls call_llm, which looks the
\* provider up and returns None when there is none
ClassifyStoryCall ==
    /\ classifier.pc = "idle"
    /\ migration.pc \in {"off", "classify"}
    /\ classifier' = [classifier EXCEPT
           !.pc = IF classifier.config.LLM_PROVIDER \in Providers
                  THEN "attempt" ELSE "returned"]
    /\ migration' = IF migration.pc = "off" THEN migration
                     ELSE [migration EXCEPT
                              !.pc = "classifying",
                              !.trace = Append(@, <<"classify", migration.stories[migration.i]>>)]
    /\ UNCHANGED <<schedVars, runs, response, last_full_scrape, store, held, ranker, cli>>

\* one round of the loop of call_llm: result = func(prompt); if result: return
Attempt ==
    /\ classifier.pc = "attempt"
    /\ \E b \in Behaviours(AnswerTexts) :
          LET o == Func(classifier.config, b) IN
          classifier' =
             IF o.raised # "none"
             THEN [classifier EXCEPT !.pc = "raised",
                                     !.calls = @ + 1,
                                     !.posts = @ + 1]
             ELSE [classifier EXCEPT
                      !.pc = IF Truthy(o.result) THEN "returned" ELSE "sleep",
                      !.calls = @ + 1,
                      !.posts = IF o.posted THEN @ + 1 ELSE @,
                      !.status_ok = o.posted /\ b.status_ok,
                      !.body = IF o.posted THEN b.body ELSE NoneStr,
                      !.answers = Append(@, o.result),
                      !.result = o.result]
    /\ UNCHANGED <<schedVars, runs, response, last_full_scrape, store, held, ranker,
                   migration, cli>>

\* time.sleep(LLM_RETRY_DELAY), then the next round or, after the last
\* one, return None
RetrySleep ==
    /\ classifier.pc = "sleep"
    /\ classifier' = [classifier EXCEPT
           !.sleeps = @ + 1,
           !.attempt = @ + 1,
           !.result = IF classifier.attempt + 1 < LLM_MAX_RETRIES THEN @ ELSE NoneStr,
           !.pc = IF classifier.attempt + 1 < LLM_MAX_RETRIES
                  THEN "attempt" ELSE "returned"]
    /\ UNCHANGED <<schedVars, runs, response, last_full_scrape, store, held, ranker,
                   migration, cli>>

\* classify_story after call_llm came back
ClassifyStoryReturn ==
    /\ classifier.pc = "returned"
    /\ classifier' = [classifier EXCEPT
           !.pc = "done",
           !.category = IF ~Truthy(classifier.result) THEN Other
                        ELSE Validate(Normalize(classifier.result.text))]
    /\ UNCHANGED <<schedVars, runs, response, last_full_scrape, store, held, ranker,
                   migration, cli>>

InitClassify ==
    /\ ENABLE_SCHEDULER = ""
    /\ scheduler = None
    /\ instances = [s \in Instances |-> NoInstance]
    /\ created = 0
    /\ startCalls = 0
    /\ atexitHooks = 0
    /\ stopped = FALSE
    /\ runs = [c \in Ctx |-> IdleRun]
    /\ response = NoResponse
    /\ last_full_scrape = None
    /\ store = NoStore
    /\ held = NoHeld
    /\ ranker = NoRanker
    /\ classifier \in {IdleClassifier(config) : config \in Configs}
    /\ migration = NoMigration
    /\ cli = NoCli

NextClassify ==
    \/ ClassifyStoryCall
    \/ Attempt
    \/ RetrySleep
    \/ ClassifyStoryReturn

SpecClassify == InitClassify /\ [][NextClassify]_vars

\* classify_story has been entered ("idle": at its first line) and has
\* neither returned nor raised
Classifying == classifier.pc \in {"idle", "attempt", "sleep", "returned"}

\* a call of classify_story that has begun is carried on: while it is
\* under way the thread takes another step of it
FairClassify == []<>(~Classifying) \/ []<><<classifier' # classifier>>_vars

SpecClassifyFair == SpecClassify /\ FairClassify

\* ------------------------------------------------------------------------
\* pipeline/migrate_categories.py: run_migration
\* ------------------------------------------------------------------------
\* most Records the Store holds in a batch run
MaxRecords == 2

RecordIds == 1..MaxRecords

\* database.get_stories_without_category(limit): the Records whose category
\* is null, by id, at most limit of them
Missing(categories, limit) ==
    LET isNull(id) == categories[id] = <<>>
        all == SelectSeq([id \in RecordIds |-> id], isNull)
    IN  SubSeq(all, 1, Min(limit, Len(all)))

\* a loop that leaves the last story out
LastRecordOffByOne(i, n) == i + 1 >= n

\* for i, story in enumerate(stories): story i was the last one
LastRecord(i, n) == i >= n

\* a run that saves whatever the flag says
SavesAlways(dry_run) == TRUE

\* if not dry_run:
Saves(dry_run) == ~dry_run

\* database.init_database() and get_stories_without_category(limit); an
\* empty list ends the run, an exception of the Store leaves the function
RunMigration ==
    /\ migration.pc = "start"
    /\ \E raises \in BOOLEAN :
          LET stories == Missing(migration.categories, migration.limit) IN
          migration' =
             IF raises THEN [migration EXCEPT !.pc = "raised"]
             ELSE [migration EXCEPT
                      !.stories = stories,
                      !.i = 1,
                      !.pc = IF stories = <<>> THEN "done" ELSE "classify"]
    /\ UNCHANGED <<schedVars, runs, response, last_full_scrape, store, held, ranker,
                   classifier, cli>>

\* category = classify_story(...) has come back; unless dry_run,
\* database.update_story_category(story['id'], category), which stores the
\* category and answers True, stores nothing and answers False, or raises
Persist ==
    /\ migration.pc = "classifying"
    /\ classifier.pc = "done"
    /\ LET id       == migration.stories[migration.i]
           category == classifier.category
           failed   == IF Truthy(classifier.result) THEN {} ELSE {id}
       IN  \E outcome \in {"True", "False", "raises"} :
              migration' =
                 IF ~Saves(migration.dry_run)
                 THEN [migration EXCEPT !.pc = "sleep",
                                        !.failed = @ \cup failed]
                 ELSE [migration EXCEPT
                          !.pc = IF outcome = "raises" THEN "raised" ELSE "sleep",
                          !.failed = @ \cup failed,
                          !.handed[id] = category,
                          !.trace = Append(@, <<"persist", id>>),
                          !.categories[id] = IF outcome = "True" THEN category ELSE @,
                          !.accepted = IF outcome = "True" THEN @ \cup {id} ELSE @,
                          !.success_count = IF outcome = "True" THEN @ + 1 ELSE @]
    /\ classifier' = IdleClassifier(classifier.config)
    /\ UNCHANGED <<schedVars, runs, response, last_full_scrape, store, held, ranker, cli>>

\* time.sleep(0.5), then the next story or the end of the loop
RateLimitSleep ==
    /\ migration.pc = "sleep"
    /\ migration' = [migration EXCEPT
           !.trace = Append(@, <<"sleep", migration.stories[migration.i]>>),
           !.pc = IF LastRecord(migration.i, Len(migration.stories))
                  THEN "done" ELSE "classify",
           !.i = IF LastRecord(migration.i, Len(migration.stories)) THEN @ ELSE @ + 1]
    /\ UNCHANGED <<schedVars, runs, response, last_full_scrape, store, held, ranker,
                   classifier, cli>>

\* run_migration(limit, dry_run) about to start on a Store in which some
\* Records have a category and the others none
InitMigrate ==
    /\ ENABLE_SCHEDULER = ""
    /\ scheduler = None
    /\ instances = [s \in Instances |-> NoInstance]
    /\ created = 0
    /\ startCalls = 0
    /\ atexitHooks = 0
    /\ stopped = FALSE
    /\ runs = [c \in Ctx |-> IdleRun]
    /\ response = NoResponse
    /\ last_full_scrape = None
    /\ store = NoStore
    /\ held = NoHeld
    /\ ranker = NoRanker
    /\ classifier \in {IdleClassifier(config) : config \in Configs}
    /\ migration \in
          {[pc |-> "start", limit |-> limit, dry_run |-> dry_run, stories |-> <<>>,
            i |-> 0, success_count |-> 0, categories |-> categories,
            before |-> categories, handed |-> [id \in RecordIds |-> <<>>],
            failed |-> {}, accepted |-> {}, trace |-> <<>>] :
              limit \in RecordIds, dry_run \in BOOLEAN,
              categories \in [RecordIds -> {<<>>, Other}]}
    /\ cli = NoCli

NextMigrate ==
    \/ RunMigration
    \/ ClassifyStoryCall
    \/ Attempt
    \/ RetrySleep
    \/ ClassifyStoryReturn
    \/ Persist
    \/ RateLimitSleep

SpecMigrate == InitMigrate /\ [][NextMigrate]_vars

\* run_migration has been entered and has neither returned nor raised
Migrating == migration.pc \in {"start", "classify", "classifying", "sleep"}

\* a batch run that has begun is carried on
FairMigrate == []<>(~Migrating) \/ []<><<llmVars' # llmVars>>_vars

SpecMigrateFair == SpecMigrate /\ FairMigrate

\* ------------------------------------------------------------------------
\* Misconfiguration: classify_story under a configuration without a usable
\* provider, beside init_scheduler calls that may fail
\* ------------------------------------------------------------------------
\* LLM_PROVIDER names no provider function, or names a hosted provider
\* whose key is the empty default of config.py
Misconfigured(config) ==
    \/ config.LLM_PROVIDER \notin {"ollama", "groq", "together"}
    \/ config.LLM_PROVIDER = "groq" /\ config.GROQ_API_KEY = ""
    \/ config.LLM_PROVIDER = "together" /\ config.TOGETHER_API_KEY = ""

InitConfig ==
    /\ ENABLE_SCHEDULER \in EnvValues
    /\ scheduler = None
    /\ instances = [s \in Instances |-> NoInstance]
    /\ created = 0
    /\ startCalls = 0
    /\ atexitHooks = 0
    /\ stopped = FALSE
    /\ runs = [c \in Ctx |-> IdleRun]
    /\ response = NoResponse
    /\ last_full_scrape = None
    /\ store = NoStore
    /\ held = NoHeld
    /\ ranker = NoRanker
    /\ classifier \in {IdleClassifier(config) : config \in {c \in Configs : Misconfigured(c)}}
    /\ migration = NoMigration
    /\ cli = NoCli

NextConfig ==
    \/ InitScheduler
    \/ ClassifyStoryCall
    \/ Attempt
    \/ RetrySleep
    \/ ClassifyStoryReturn

SpecConfig == InitConfig /\ [][NextConfig]_vars

\* ------------------------------------------------------------------------
\* main.py: the command line and run_pipeline
\* ------------------------------------------------------------------------
\* the function the if/elif chain of main() picks for the flags given
\* ("cleanup" stands for --cleanup with a number of days other than 0)
Command(args) ==
    CASE "stats" \in args      -> "stats"
      [] "cleanup" \in args    -> "cleanup"
      [] "scrape" \in args     -> "scrape"
      [] "cluster" \in args    -> "cluster"
      [] "synthesize" \in args -> "synthesize"
      [] "pipeline" \in args   -> "pipeline"
      [] "deploy" \in args     -> "deploy"
      [] OTHER                 -> "serve"

\* a run_pipeline that synthesizes whatever run_cluster returned
NextCallAlwaysSynthesizes(command, call, clusters) ==
    CASE call = "init_database" ->
            (CASE command = "pipeline" -> "scrape"
               [] command = "deploy"   -> "stats"
               [] command = "serve"    -> "app_main"
               [] OTHER                -> command)
      [] call = "scrape" -> IF command = "pipeline" THEN "cluster" ELSE "done"
      [] call = "cluster" -> IF command = "pipeline" THEN "synthesize" ELSE "done"
      [] call = "synthesize" -> IF command = "pipeline" THEN "stats" ELSE "done"
      [] call = "stats" -> IF command = "deploy" THEN "execvp" ELSE "done"
      [] OTHER -> "done"

\* the call that follows a call that returned, in the function main() picked:
\* run_pipeline goes init_database, run_scrape, run_cluster, run_synthesize
\* `if clusters:`, get_stats; the single-step commands go init_database and
\* their step; run_deploy goes init_database, get_stats, os.execvp;
\* run_server goes init_database, app_main
NextCall(command, call, clusters) ==
    CASE call = "init_database" ->
            (CASE command = "pipeline" -> "scrape"
               [] command = "deploy"   -> "stats"
               [] command = "serve"    -> "app_main"
               [] OTHER                -> command)
      [] call = "scrape" -> IF command = "pipeline" THEN "cluster" ELSE "done"
      [] call = "cluster" ->
            IF command = "pipeline"
            THEN (IF clusters = "some" THEN "synthesize" ELSE "stats")
            ELSE "done"
      [] call = "synthesize" -> IF command = "pipeline" THEN "stats" ELSE "done"
      [] call = "stats" -> IF command = "deploy" THEN "execvp" ELSE "done"
      [] OTHER -> "done"

\* the next collaborator call of the process: it returns (run_clustering
\* with None, an empty list or Groups) or raises, and nothing in main.py
\* catches an exception
CliCall ==
    /\ cli.pc \notin {"off", "done", "raised"}
    /\ \E o \in Outcomes, result \in {"none", "empty", "some"} :
          /\ (cli.pc # "cluster" \/ o = "raise") => result = "none"
          /\ cli' =
                IF o = "raise"
                THEN [cli EXCEPT !.pc = "raised",
                                 !.raisedAt = cli.pc,
                                 !.calls = Append(@, cli.pc)]
                ELSE LET clusters == IF cli.pc = "cluster" THEN result ELSE cli.clusters
                     IN [cli EXCEPT !.pc = NextCall(cli.command, cli.pc, clusters),
                                    !.clusters = clusters,
                                    !.calls = Append(@, cli.pc)]
    /\ UNCHANGED <<schedVars, runs, response, last_full_scrape, store, held, ranker,
                   llmVars>>

\* python main.py with any of its flags; every function main() picks begins
\* with database.init_database()
InitMain ==
    /\ ENABLE_SCHEDULER = ""
    /\ scheduler = None
    /\ instances = [s \in Instances |-> NoInstance]
    /\ created = 0
    /\ startCalls = 0
    /\ atexitHooks = 0
    /\ stopped = FALSE
    /\ runs = [c \in Ctx |-> IdleRun]
    /\ response = NoResponse
    /\ last_full_scrape = None
    /\ store = NoStore
    /\ held = NoHeld
    /\ ranker = NoRanker
    /\ classifier = NoClassifier
    /\ migration = NoMigration
    /\ cli \in {[pc |-> "init_database", args |-> args, command |-> Command(args),
                  clusters |-> "unknown", calls |-> <<>>, raisedAt |-> "none"] :
                    args \in SUBSET {"serve", "pipeline", "scrape", "cluster",
                                     "synthesize", "stats", "cleanup", "deploy"}}

SpecMain == InitMain /\ [][CliCall]_vars

\* ------------------------------------------------------------------------
\* Properties
\* ------------------------------------------------------------------------
\* the job function of a context is executing (it has not come back yet)
Executing(c) == runs[c].pc \notin {"idle", "returned", "raised"}

\* C1: no two different scheduled jobs (initial, full-refresh, quick) are
\* ever executing at the same moment.
C1_DifferentJobsNeverOverlap ==
    \A c1, c2 \in SchedCtx :
        (c1[2] # c2[2]) => ~(Executing(c1) /\ Executing(c2))

\* C2: no two firings of the same scheduled job id are ever executing at the
\* same moment.
C2_SameJobNeverOverlaps ==
    \A c1, c2 \in SchedCtx :
        (c1 # c2 /\ c1[2] = c2[2]) => ~(Executing(c1) /\ Executing(c2))

\* C3: after any number of enabled calls of init_scheduler there is never
\* more than one live timer for a job id, and while a started scheduler has
\* not been stopped each recurring id has exactly one.
C3_OneLiveTimerPerId ==
    /\ \A j \in JobIds : Cardinality(LiveTimers(j)) <= 1
    /\ (atexitHooks > 0 /\ ~stopped) =>
          \A j \in {"full_pipeline", "quick_pipeline"} :
              Cardinality(LiveTimers(j)) = 1

\* C4: once the registered shutdown has run (and no start followed it), no
\* timer created by any earlier start is live.
C4_StopReleasesEveryTimer ==
    stopped => \A j \in JobIds : LiveTimers(j) = {}

\* C5: when ENABLE_SCHEDULER is not 'true' (ignoring case), init_scheduler
\* creates nothing: the handle stays None, no scheduler object, timer or
\* shutdown hook exists, and no scheduled job is ever invoked.
C5_DisabledCreatesNothing ==
    (ENABLE_SCHEDULER \notin {"true", "True", "TRUE"}) =>
        /\ scheduler = None
        /\ created = 0
        /\ atexitHooks = 0
        /\ \A s \in Instances : instances[s] = NoInstance
        /\ \A c \in SchedCtx : runs[c] = IdleRun

\* C5 witness: init_scheduler has been called with the flag set to "false".
C5_Witness ==
    /\ ENABLE_SCHEDULER = "false"
    /\ startCalls >= 1

\* C6: in run_pipeline_job the Ingestor is invoked iff force is true or the
\* recent count is below the threshold, and then exactly once: no call before
\* the decision, one call after it when scraping is due, none when it is not.
C6_IngestIffForcedOrFewRecent ==
    \A c \in Ctx :
        LET r == runs[c]
            due == r.force \/ r.recent < SkipThreshold
        IN  /\ r.scrapeCalls <= 1
            /\ r.pc \in {"import", "count"} => r.scrapeCalls = 0
            /\ r.pc = "scrape" => due /\ r.scrapeCalls = 0
            /\ (r.kind = "pipeline" /\ r.pc \in {"check", "cluster", "synth", "stats"})
                  => r.scrapeCalls = IF due THEN 1 ELSE 0

\* C6 witness: an unforced run that read exactly the threshold skipped the
\* Ingestor and went on to the ungrouped check.
C6_Witness ==
    \E c \in Ctx :
        /\ runs[c].kind = "pipeline"
        /\ runs[c].pc = "check"
        /\ ~runs[c].force
        /\ runs[c].recent = SkipThreshold
        /\ runs[c].scrapeCalls = 0

\* C7: when the Ingestor raises, the run still queries the Store for
\* ungrouped items before it ends.
C7_IngestFailureStillChecks ==
    \A c \in Ctx :
        (runs[c].pc = "returned" /\ runs[c].raisedAt = "scrape") => runs[c].checked

\* C8: run_pipeline_job and run_quick_pipeline never let an exception out:
\* whichever collaborator call raises, the function returns normally.
C8_NoExceptionEscapes ==
    \A c \in Ctx :
        /\ runs[c].pc # "raised"
        /\ runs[c].raisedAt # "none" => runs[c].pc = "returned"

\* C8 witness: a full run whose last collaborator call (the stats read)
\* raised and a quick run in which a collaborator raised have both returned.
C8_Witness ==
    \E c1, c2 \in Ctx :
        /\ runs[c1].kind = "pipeline"
        /\ runs[c1].pc = "returned"
        /\ runs[c1].raisedAt = "stats"
        /\ runs[c2].kind = "quick"
        /\ runs[c2].pc = "returned"
        /\ runs[c2].raisedAt # "none"

\* the calls of run_pipeline_job to its collaborators (Store, Ingestor,
\* Grouper, Enricher)
CollaboratorSteps == {"count", "scrape", "check", "cluster", "synth", "stats"}

\* C9: the value run_pipeline_job returns tells a failed run from a
\* successful one: a run in which a collaborator raised and a run in which
\* none did never return the same value.
C9_ResultTellsFailure ==
    \A c1, c2 \in Ctx :
        (/\ runs[c1].kind = "pipeline" /\ runs[c1].pc = "returned"
         /\ runs[c1].raisedAt \in CollaboratorSteps
         /\ runs[c2].kind = "pipeline" /\ runs[c2].pc = "returned"
         /\ runs[c2].raisedAt = "none")
        => runs[c1].result # runs[c2].result

\* C10: api_refresh answers with a non-200 status whenever a collaborator
\* raised inside the run_pipeline_job it executed.
C10_RefreshReportsFailedRun ==
    [][(/\ runs[ReqCtx].pc = "returned"
        /\ runs[ReqCtx].raisedAt \in CollaboratorSteps
        /\ runs'[ReqCtx].pc = "idle")
       => response'.status # 200]_vars

\* C11: in every run of either entry point the Grouper is invoked iff the
\* Store reported an ungrouped Item at that run's check, and the Enricher iff
\* the Grouper was invoked and returned a non-empty result; each at most once,
\* and an empty Grouper result goes on without error and without an Enricher
\* call.  For every step: the calls made so far fit the position the run is
\* at (r is the run after the step), a call is made only from the branch that
\* allows it, and a check reporting nothing ungrouped leaves the run without
\* one.
C11_GrouperAndEnricherBranch ==
    [][\A c \in Ctx :
          LET r == runs'[c] IN
          /\ r.clusterCalls <= 1 /\ r.synthCalls <= r.clusterCalls
          /\ r.clusterCalls = 1 => r.checked
          /\ r.pc \in {"import", "count", "scrape", "check"} => r.clusterCalls = 0
          /\ r.pc = "cluster" => r.has = "yes" /\ r.clusterCalls = 0
          /\ r.pc = "synth" =>
                /\ r.has = "yes" /\ r.clusters = "some"
                /\ r.clusterCalls = 1 /\ r.synthCalls = 0
          /\ r.pc = "stats" =>
                /\ r.has \in {"yes", "no"}
                /\ r.has = "yes" => r.clusters \in {"some", "empty"}
                /\ r.clusterCalls = (IF r.has = "yes" THEN 1 ELSE 0)
                /\ r.synthCalls =
                      (IF r.has = "yes" /\ r.clusters = "some" THEN 1 ELSE 0)
                /\ r.raisedAt = "none"
          /\ r.clusterCalls > runs[c].clusterCalls =>
                runs[c].pc = "cluster" /\ runs[c].has = "yes"
          /\ r.synthCalls > runs[c].synthCalls =>
                runs[c].pc = "synth" /\ runs[c].clusters = "some"
          /\ (runs[c].pc = "check" /\ r.pc \notin {"check", "cluster"}) =>
                r.clusterCalls = 0 /\ r.pc \in {"stats", "returned"}
          /\ (runs[c].pc = "cluster" /\ r.pc \notin {"cluster", "synth"}) =>
                r.synthCalls = 0 /\ r.pc \in {"stats", "returned"}
          /\ (runs[c].pc \in {"stats", "returned"} /\ r.pc # "idle") =>
                /\ r.clusterCalls = runs[c].clusterCalls
                /\ r.synthCalls = runs[c].synthCalls]_vars

\* C11 witness: a run whose check reported ungrouped Items called the Grouper,
\* got an empty result and reached the stats without calling the Enricher.
C11_Witness ==
    \E c \in Ctx :
        /\ runs[c].pc = "stats"
        /\ runs[c].has = "yes"
        /\ runs[c].clusters = "empty"
        /\ runs[c].clusterCalls = 1
        /\ runs[c].synthCalls = 0

\* C13: run_quick_pipeline skips the count, the Ingestor and the timestamp:
\* after every step a quick run is neither at the count nor at the scrape
\* statement, holds no recent count and has made no Ingestor call; no step of
\* a quick run changes _last_full_scrape; after its imports it is at the
\* ungrouped check.
C13_QuickSkipsIngestSteps ==
    [][\A c \in Ctx :
          /\ runs'[c].kind = "quick" =>
                /\ runs'[c].pc \notin {"count", "scrape"}
                /\ runs'[c].recent = -1
                /\ runs'[c].scrapeCalls = 0
          /\ (runs[c].kind = "quick" /\ runs'[c] # runs[c]) =>
                /\ last_full_scrape' = last_full_scrape
                /\ (runs[c].pc = "import" /\ runs'[c].pc # "returned") =>
                      runs'[c].pc = "check"]_vars

\* C13 witness: a quick run went through the check, the Grouper and the
\* Enricher and is at its stats.
C13_Witness ==
    \E c \in Ctx :
        /\ runs[c].kind = "quick"
        /\ runs[c].pc = "stats"
        /\ runs[c].checked
        /\ runs[c].synthCalls = 1

\* C14: _last_full_scrape changes only in the step in which a run of
\* run_pipeline_job called the Ingestor and the call returned; it is unchanged
\* when the scrape is skipped, when the Ingestor raises and in every later
\* step (check, Grouper, Enricher, stats) whether it returns or raises.
C14_StampOnlyOnIngestSuccess ==
    [][/\ last_full_scrape' # last_full_scrape =>
             \E c \in Ctx :
                /\ runs[c].kind = "pipeline" /\ runs[c].pc = "scrape"
                /\ runs'[c].pc = "check" /\ runs'[c].raisedAt = "none"
                /\ runs'[c].scrapeCalls = runs[c].scrapeCalls + 1
       /\ \A c \in Ctx :
             /\ (runs[c].pc = "scrape" /\ runs'[c].raisedAt = "scrape") =>
                   last_full_scrape' = last_full_scrape
             /\ (runs[c].pc = "count" /\ runs'[c].pc = "check") =>
                   last_full_scrape' = last_full_scrape
             /\ (runs[c].pc \in {"check", "cluster", "synth", "stats"}
                 /\ runs'[c] # runs[c]) =>
                   last_full_scrape' = last_full_scrape]_vars

\* C14 witness: the timestamp was set by a successful Ingestor call and a
\* later step of that run failed.
C14_Witness ==
    /\ last_full_scrape # None
    /\ \E c \in Ctx :
          /\ runs[c].scrapeCalls = 1
          /\ runs[c].pc = "returned"
          /\ runs[c].raisedAt \in {"check", "cluster", "synth", "stats"}

\* C15: every scheduler that init_scheduler creates is given exactly the
\* three jobs initial_pipeline, full_pipeline and quick_pipeline and never a
\* job afterwards; its initial_pipeline leaves the job store at its first
\* firing, so it fires at most once, while full_pipeline and quick_pipeline
\* stay registered through every firing; an invocation started by a firing
\* is run_pipeline_job(False) for initial_pipeline, run_pipeline_job(True)
\* for full_pipeline and run_quick_pipeline() for quick_pipeline, so the only
\* scheduled unforced run_pipeline_job is the initial one.
C15_ThreeJobsAndTheirActions ==
    /\ [](\A s \in Instances :
            /\ instances[s].state # "absent" =>
                  /\ {"full_pipeline", "quick_pipeline"} \subseteq instances[s].jobs
                  /\ instances[s].jobs \subseteq
                        {"initial_pipeline", "full_pipeline", "quick_pipeline"}
            /\ runs[<<s, "initial_pipeline">>].pc = "import" =>
                  /\ runs[<<s, "initial_pipeline">>].kind = "pipeline"
                  /\ ~runs[<<s, "initial_pipeline">>].force
                  /\ "initial_pipeline" \notin instances[s].jobs
            /\ runs[<<s, "full_pipeline">>].pc = "import" =>
                  /\ runs[<<s, "full_pipeline">>].kind = "pipeline"
                  /\ runs[<<s, "full_pipeline">>].force
            /\ runs[<<s, "quick_pipeline">>].pc = "import" =>
                  runs[<<s, "quick_pipeline">>].kind = "quick")
    /\ [][\A s \in Instances :
            /\ (instances[s].state = "absent" /\ instances'[s].state # "absent") =>
                  /\ instances'[s].jobs =
                        {"initial_pipeline", "full_pipeline", "quick_pipeline"}
                  /\ Cardinality(instances'[s].jobs) = 3
            /\ instances[s].state # "absent" =>
                  instances'[s].jobs \subseteq instances[s].jobs
            /\ \A j \in JobIds :
                  (runs[<<s, j>>].pc = "idle" /\ runs'[<<s, j>>].pc # "idle") =>
                     /\ instances[s].state = "running"
                     /\ j \in instances[s].jobs
                     /\ runs'[<<s, j>>].pc = "import"]_vars

\* C15 witness: a scheduler whose initial_pipeline has fired and come back,
\* and whose full_pipeline and quick_pipeline are both executing.
C15_Witness ==
    \E s \in Instances :
        /\ instances[s].state = "running"
        /\ "initial_pipeline" \notin instances[s].jobs
        /\ runs[<<s, "initial_pipeline">>].pc = "idle"
        /\ runs[<<s, "full_pipeline">>].pc = "import"
        /\ runs[<<s, "full_pipeline">>].force
        /\ runs[<<s, "quick_pipeline">>].pc = "import"

\* C16: a scheduled run in which a collaborator raised leaves its scheduler
\* running with full_pipeline and quick_pipeline registered; the step that
\* follows the failed run releases the job's instance and changes nothing of
\* the scheduler; and under fair timers each recurring job is started again
\* and again, so also after every one of its failed runs.
C16_FailedRunKeepsSchedule ==
    /\ [](\A s \in Instances, j \in JobIds :
            (/\ runs[<<s, j>>].pc = "returned"
             /\ runs[<<s, j>>].raisedAt \in CollaboratorSteps) =>
               /\ instances[s].state = "running"
               /\ {"full_pipeline", "quick_pipeline"} \subseteq instances[s].jobs)
    /\ [][\A s \in Instances, j \in JobIds :
            (/\ runs[<<s, j>>].pc = "returned"
             /\ runs[<<s, j>>].raisedAt \in CollaboratorSteps
             /\ runs'[<<s, j>>] # runs[<<s, j>>]) =>
               /\ runs'[<<s, j>>].pc = "idle"
               /\ instances' = instances]_vars
    /\ \A j \in {"full_pipeline", "quick_pipeline"} :
          []<>(\E s \in Instances : runs[<<s, j>>].pc = "import")

\* C16 witness: the run of full_pipeline failed at the Grouper and came back
\* while quick_pipeline, fired meanwhile, is executing.
C16_Witness ==
    \E s \in Instances :
        /\ runs[<<s, "full_pipeline">>].pc = "returned"
        /\ runs[<<s, "full_pipeline">>].raisedAt = "cluster"
        /\ runs[<<s, "quick_pipeline">>].pc = "check"

\* C18: calculate_relevance_score returns an integer from 0 to 100 for every
\* list of sources (the empty one included), every lean value and every
\* created_at: past, future, absent, None or not a timestamp.
C18_ScoreInRange ==
    ranker.pc = "scored" =>
        /\ ranker.relevance_score \in Int
        /\ ranker.relevance_score >= 0
        /\ ranker.relevance_score <= 100

\* C18 witness: a story more than a day old with no source at all was scored;
\* before the cut-off its score is negative.
C18_Witness ==
    /\ ranker.pc = "scored"
    /\ ranker.sources = <<>>
    /\ ranker.story.form = "iso"
    /\ ranker.story.quartersOld > 100
    /\ ranker.relevance_score = 0

\* C19 as stated: for every source count, lean count and age (fractional and
\* negative ages included) the score is
\* clamp(50 + sourceCount*15 + uniqueLeanCount*20 - floor(hoursOld*2), 0, 100).
C19_ScoreIsFloorFormula ==
    (ranker.pc = "scored" /\ ranker.story.form = "iso") =>
        LET sourceCount     == Len(ranker.sources)
            uniqueLeanCount ==
                Cardinality({IF ranker.sources[i] = NoKey THEN "center"
                             ELSE ranker.sources[i] : i \in DOMAIN ranker.sources})
            \* floor(hoursOld * 2) with hoursOld = quartersOld / 4
            penalty         == (ranker.story.quartersOld * 2) \div 4
            raw             == 50 + sourceCount * 15 + uniqueLeanCount * 20 - penalty
        IN ranker.relevance_score =
              (IF raw < 0 THEN 0 ELSE IF raw > 100 THEN 100 ELSE raw)

\* C19 amended: the score is
\* clamp(50 + sourceCount*15 + uniqueLeanCount*20 - trunc(hoursOld*2), 0, 100)
\* where trunc rounds toward zero (floor for hoursOld >= 0, ceiling for a
\* creation timestamp in the future) and the recency term is 0 when no age
\* can be computed (timestamp absent, None, unparseable or carrying a UTC
\* offset); (5, 3, 1h) gives 100 and (0, 0, 100h) gives 0.
C19_ScoreIsTruncFormula ==
    /\ ranker.pc = "scored" =>
        LET sourceCount     == Len(ranker.sources)
            uniqueLeanCount ==
                Cardinality({IF ranker.sources[i] = NoKey THEN "center"
                             ELSE ranker.sources[i] : i \in DOMAIN ranker.sources})
            doubled         == ranker.story.quartersOld * 2
            penalty         == IF ranker.story.form # "iso" THEN 0
                               ELSE IF doubled >= 0 THEN doubled \div 4
                               ELSE -((-doubled) \div 4)
            raw             == 50 + sourceCount * 15 + uniqueLeanCount * 20 - penalty
        IN ranker.relevance_score =
              (IF raw < 0 THEN 0 ELSE IF raw > 100 THEN 100 ELSE raw)
    /\ Score([form |-> "iso", quartersOld |-> 4],
             <<"left", "left", "center", "center", "right">>) = 100
    /\ Score([form |-> "iso", quartersOld |-> 400], <<>>) = 0

\* C19 witness: a story created a quarter of an hour in the future with one
\* source was scored: trunc(-0.5) = 0, the score is 50 + 15 + 20.
C19_Witness ==
    /\ ranker.pc = "scored"
    /\ ranker.story.form = "iso"
    /\ ranker.story.quartersOld = -1
    /\ Len(ranker.sources) = 1
    /\ ranker.relevance_score = 85

\* C20: the score never decreases when a source is added whose lean is already
\* present (source count up, lean count fixed), never decreases when the lean
\* of one source is changed so that more distinct leans are present (lean count
\* up, source count fixed), and never increases when the story is older.
C20_ScoreMonotone ==
    ranker.pc = "scored" =>
        LET st      == ranker.story
            src     == ranker.sources
            leansOf(q) == {SourceLean(q[i]) : i \in DOMAIN q}
        IN
        /\ ranker.relevance_score = Score(st, src)
        /\ \A x \in LeanValues :
              SourceLean(x) \in leansOf(src) =>
                 Score(st, Append(src, x)) >= ranker.relevance_score
        /\ \A i \in DOMAIN src, x \in LeanValues :
              LET changed == [src EXCEPT ![i] = x] IN
              Cardinality(leansOf(changed)) > Cardinality(leansOf(src)) =>
                 Score(st, changed) >= ranker.relevance_score
        /\ st.form = "iso" =>
              \A q \in Ages :
                 q > st.quartersOld =>
                    Score([st EXCEPT !.quartersOld = q], src) <= ranker.relevance_score

\* C20 witness: a scored story whose score lies strictly inside the range, so
\* that one more source, one more lean and one more hour all change it.
C20_Witness ==
    /\ ranker.pc = "scored"
    /\ ranker.story.form = "iso"
    /\ ranker.relevance_score > 0
    /\ ranker.relevance_score < 100
    /\ Len(ranker.sources) = 2
    /\ Score(ranker.story, Append(ranker.sources, ranker.sources[1]))
          > ranker.relevance_score
    /\ Score([ranker.story EXCEPT !.quartersOld = @ + QuartersPerHour],
             ranker.sources) < ranker.relevance_score

\* C12 as stated: when run_pipeline_job is called twice in succession and no
\* Item arrives during the second call, the second call finds no ungrouped
\* Item, calls neither Grouper nor Enricher and leaves the Records and the
\* group id of every Item as they were.
C12_SecondRunIsNoOp ==
    (Ended(runs[FirstCall]) /\ InProgress(runs[ReqCtx])
     /\ ReqCtx \notin store.ingestedBy) =>
        /\ runs[ReqCtx].has # "yes"
        /\ runs[ReqCtx].clusterCalls = 0
        /\ runs[ReqCtx].synthCalls = 0
        /\ store.items = store.itemsBefore
        /\ store.records = store.recordsBefore

\* C12 amended: when the first call has left no Item ungrouped and no Item
\* arrives during the second call, the second call finds no ungrouped Item,
\* calls neither Grouper nor Enricher and leaves the Records and the group id
\* of every Item as they were.
C12_SecondRunIsNoOpWhenNothingPending ==
    (Ended(runs[FirstCall]) /\ InProgress(runs[ReqCtx])
     /\ ReqCtx \notin store.ingestedBy
     /\ \A i \in ItemIds : store.itemsBefore[i] # None) =>
        /\ runs[ReqCtx].has # "yes"
        /\ runs[ReqCtx].clusterCalls = 0
        /\ runs[ReqCtx].synthCalls = 0
        /\ store.items = store.itemsBefore
        /\ store.records = store.recordsBefore

\* C12 witness: the first call grouped and enriched the ungrouped Items and
\* the second call, with nothing pending, ran its check and came back.
C12_Witness ==
    /\ runs[FirstCall].pc = "returned"
    /\ runs[FirstCall].synthCalls = 1
    /\ runs[FirstCall].raisedAt = "none"
    /\ runs[ReqCtx].pc = "returned"
    /\ runs[ReqCtx].checked
    /\ runs[ReqCtx].raisedAt = "none"
    /\ ReqCtx \notin store.ingestedBy
    /\ \A i \in ItemIds : store.itemsBefore[i] \notin {None, Absent}

\* C17: however a request's run_pipeline_job and a scheduled run interleave,
\* no Item belongs to two Records (no Group is enriched twice) and every
\* grouped Item carries the id of a Record that contains it.
C17_StoreStaysConsistent ==
    /\ \A r1 \in store.records, r2 \in store.records :
          r1 # r2 => r1.items \cap r2.items = {}
    /\ \A i \in ItemIds :
          store.items[i] \notin {None, Absent} =>
             \E r \in store.records : r.id = store.items[i] /\ i \in r.items

\* C21: the number of distinct leans the score counts is taken after folding
\* every tag outside left, center, right and international (and a missing
\* tag) to center: it equals the number of distinct folded tags, never
\* exceeds four, and the score is the formula evaluated with that number.
C21_LeansFoldToCenter ==
    ranker.pc = "scored" =>
        LET folded == {IF ranker.sources[i] \in GroupedLeans
                       THEN ranker.sources[i] ELSE "center" :
                          i \in DOMAIN ranker.sources}
            penalty == IF ranker.story.form = "iso"
                       THEN IntTrunc(ranker.story.quartersOld * RELEVANCE_WEIGHT_RECENCY,
                                     QuartersPerHour)
                       ELSE 0
        IN  /\ Cardinality(UniqueLeans(ranker.sources)) = Cardinality(folded)
            /\ Cardinality(UniqueLeans(ranker.sources)) <= Cardinality(GroupedLeans)
            /\ ranker.relevance_score =
                  Max(0, Min(100, RELEVANCE_BASE_SCORE
                                    + Len(ranker.sources) * RELEVANCE_WEIGHT_SOURCES
                                    + Cardinality(folded) * RELEVANCE_WEIGHT_DIVERSITY
                                    - penalty))

\* C22: a story whose creation timestamp is absent, None or not parseable is
\* scored without a failure and without a recency penalty: the score is
\* clamp(base + 15 * sources + 20 * leans, 0, 100).
C22_BadTimestampCostsNothing ==
    /\ ranker.pc # "raised"
    /\ (ranker.pc = "scored" /\ ranker.story.form \in {"absent", "none", "garbage"}) =>
          ranker.relevance_score =
              Max(0, Min(100, RELEVANCE_BASE_SCORE
                                + Len(ranker.sources) * RELEVANCE_WEIGHT_SOURCES
                                + Cardinality(UniqueLeans(ranker.sources))
                                     * RELEVANCE_WEIGHT_DIVERSITY))

\* C22 witness: a story whose created_at is None, with one source, has been
\* scored 85.
C22_Witness ==
    /\ ranker.pc = "scored"
    /\ ranker.story.form = "none"
    /\ Len(ranker.sources) = 1
    /\ ranker.relevance_score = 85

\* C23: the ranked list is a permutation of the list retrieved, no story
\* stands before one with a higher score, and stories with equal scores keep
\* the order in which they were retrieved.
C23_RankIsStableDescending ==
    ranker.pc = "ranked" =>
        LET retrieved == ranker.retrieved
            ranked == ranker.stories
        IN
        /\ Len(ranked) = Len(retrieved)
        /\ \A i \in DOMAIN retrieved : \E k \in DOMAIN ranked : ranked[k] = retrieved[i]
        /\ \A k1, k2 \in DOMAIN ranked :
              k1 < k2 =>
                 /\ ranked[k1].relevance_score >= ranked[k2].relevance_score
                 /\ (ranked[k1].relevance_score = ranked[k2].relevance_score
                        => \E i1, i2 \in DOMAIN retrieved :
                              /\ i1 < i2
                              /\ retrieved[i1] = ranked[k1]
                              /\ retrieved[i2] = ranked[k2])

\* C23 witness: three stories retrieved with scores 50, 85, 50 stand ranked
\* as the second, the first, the third.
C23_Witness ==
    /\ ranker.pc = "ranked"
    /\ ranker.retrieved # ranker.stories
    /\ Len(ranker.stories) = 3
    /\ ranker.stories[1] = [id |-> 2, relevance_score |-> 85]
    /\ ranker.stories[2] = [id |-> 1, relevance_score |-> 50]
    /\ ranker.stories[3] = [id |-> 3, relevance_score |-> 50]

\* C24: classify_story never raises and always returns one of the eight
\* categories, whatever the provider does: a transport error, a failure
\* status, a body without the answer field, an empty or blank answer or any
\* text.
C24_ClassifyReturnsACategory ==
    /\ classifier.pc # "raised"
    /\ classifier.pc = "done" =>
          /\ classifier.category \in VALID_CATEGORIES
          /\ Cardinality(VALID_CATEGORIES) = 8

\* C24 witness: the provider answered three requests with a body that lacks
\* the answer field, and classify_story returned "other".
C24_Witness ==
    /\ classifier.pc = "done"
    /\ classifier.posts = LLM_MAX_RETRIES
    /\ classifier.body.none
    /\ \A k \in DOMAIN classifier.answers : classifier.answers[k].none
    /\ classifier.category = Other

\* the attempts of call_llm so far: none raised, there are at most
\* LLM_MAX_RETRIES, all but the last failed, and once call_llm is back
\* either the last one gave the text it returns or all failed, there were
\* LLM_MAX_RETRIES of them (none for an unknown provider) and the result is
\* None, which classify_story turns into "other"
AttemptsBounded ==
    LET c == classifier
        failed(k) == c.answers[k].none \/ c.answers[k].text = <<>>
    IN  c.pc # "off" =>
        /\ c.pc # "raised"
        /\ c.calls <= LLM_MAX_RETRIES
        /\ c.calls = Len(c.answers)
        /\ \A k \in 1..(c.calls - 1) : failed(k)
        /\ c.pc \in {"returned", "done"} =>
              \/ /\ c.calls >= 1
                 /\ ~failed(c.calls)
                 /\ c.result = c.answers[c.calls]
              \/ /\ c.result = NoneStr
                 /\ \A k \in 1..c.calls : failed(k)
                 /\ c.calls = IF c.config.LLM_PROVIDER \in Providers
                              THEN LLM_MAX_RETRIES ELSE 0
                 /\ c.pc = "done" => c.category = Other

\* C25: one call of classify_story invokes the provider at most
\* LLM_MAX_RETRIES (3) times and always comes to its end; it stops at the
\* first attempt that returns a non-empty text and uses that text; when
\* every attempt fails it makes no further attempt, call_llm reports the
\* failure without raising and classify_story returns "other".
C25_AtMostThreeAttempts ==
    /\ [](AttemptsBounded)
    /\ <>(classifier.pc = "done")

\* C25 witness: two attempts failed, the third returned a text, and
\* classify_story came back with the category it names.
C25_Witness ==
    /\ classifier.pc = "done"
    /\ classifier.calls = LLM_MAX_RETRIES
    /\ classifier.answers[1] = NoneStr
    /\ classifier.answers[2] = Str(<<>>)
    /\ classifier.result = Str(<<"t", "e", "c", "h">>)
    /\ classifier.category = <<"t", "e", "c", "h">>

\* C26: the retry delay occurs only between attempts: when call_llm has
\* come back after at least one attempt, the number of delays is the number
\* of attempts minus one, with no delay after the last failed attempt and
\* none after a success.
C26_DelaysOnlyBetweenAttempts ==
    (classifier.pc \in {"returned", "done"} /\ classifier.calls >= 1) =>
        classifier.sleeps = classifier.calls - 1

\* C27: when the provider's answer is used (it is not empty after the
\* provider function stripped it), classify_story returns the answer
\* lower-cased and with every character that is not a lower-case ASCII
\* letter deleted if that is one of the eight categories, and "other" if it
\* is not: "  Politics!! " gives politics, "entertainment" gives other, an
\* answer without a letter gives other.
C27_ReturnsNormalizedOrOther ==
    (classifier.pc = "done" /\ ~classifier.result.none /\ classifier.result.text # <<>>) =>
        LET raw  == classifier.body.text
            norm == SelectSeq(StrLower(raw), IsLowercaseLetter)
        IN  /\ classifier.category = IF norm \in VALID_CATEGORIES THEN norm ELSE Other
            /\ raw = <<" ", " ", "P", "o", "l", "i", "t", "i", "c", "s", "!", "!", " ">>
                  => classifier.category = <<"p", "o", "l", "i", "t", "i", "c", "s">>
            /\ raw = <<"e", "n", "t", "e", "r", "t", "a", "i", "n", "m", "e", "n", "t">>
                  => classifier.category = Other
            /\ norm = <<>> => classifier.category = Other

\* C27 witness: the answer "  Politics!! " came back as politics.
C27_Witness ==
    /\ classifier.pc = "done"
    /\ classifier.body.text =
          <<" ", " ", "P", "o", "l", "i", "t", "i", "c", "s", "!", "!", " ">>
    /\ classifier.category = <<"p", "o", "l", "i", "t", "i", "c", "s">>

\* C28: after any batch run every Record whose category the driver set has
\* one of the eight categories, whatever the provider did and whatever the
\* Store answered to the update; a Record whose classification failed on
\* all attempts is handed to the Store with "other" and, where the Store
\* took the update, is stored with "other".
C28_BackfillKeepsCategoriesValid ==
    migration.pc # "off" =>
        \A id \in RecordIds :
            /\ migration.categories[id] # migration.before[id] =>
                  /\ migration.categories[id] \in VALID_CATEGORIES
                  /\ migration.categories[id] = migration.handed[id]
            /\ migration.handed[id] # <<>> => migration.handed[id] \in VALID_CATEGORIES
            /\ id \in migration.failed =>
                  /\ migration.handed[id] \in {<<>>, Other}
                  /\ migration.categories[id] \in {migration.before[id], Other}

\* C28 witness: a saving run is over in which the classification of the
\* first Record failed on all attempts and was stored as "other" and the
\* second Record was stored as politics.
C28_Witness ==
    /\ migration.pc = "done"
    /\ ~migration.dry_run
    /\ migration.stories = <<1, 2>>
    /\ 1 \in migration.failed
    /\ migration.categories[1] = Other
    /\ migration.categories[2] = <<"p", "o", "l", "i", "t", "i", "c", "s">>

\* the steps run_migration takes for a list of stories: classify, persist
\* (when it saves) and the rate-limit delay, story after story
RECURSIVE StepsFor(_, _)
StepsFor(stories, saves) ==
    IF stories = <<>> THEN <<>>
    ELSE (IF saves
          THEN <<<<"classify", Head(stories)>>, <<"persist", Head(stories)>>,
                 <<"sleep", Head(stories)>>>>
          ELSE <<<<"classify", Head(stories)>>, <<"sleep", Head(stories)>>>>)
            \o StepsFor(Tail(stories), saves)

\* the steps taken so far are the first steps of the given ones
TakenOf(steps) ==
    /\ Len(migration.trace) <= Len(steps)
    /\ migration.trace = SubSeq(steps, 1, Len(migration.trace))

\* C29 as stated: the batch driver processes each Record returned by
\* get_stories_without_category(limit) exactly once, in list order, as
\* classify, then persist, then rate-limit delay, never starting the next
\* classify before the delay of the Record before has finished, and the run
\* ends after the last Record.
C29_EachRecordOnceInOrder ==
    migration.pc \notin {"off", "start"} /\ migration.i > 0 =>
        /\ TakenOf(StepsFor(migration.stories, TRUE))
        /\ migration.pc \in {"done", "raised"} =>
              migration.trace = StepsFor(migration.stories, TRUE)

\* the steps of a batch run so far: classify, persist (left out in a dry
\* run) and delay follow each other, story by story in list order; classify_story is under way only
\* in its own slot; a run that returned took every step, a run that raised
\* stopped at a Store call
BatchInOrder ==
    /\ classifier.pc \in {"attempt", "sleep", "returned", "done"} =>
          migration.pc = "classifying"
    /\ migration.pc \notin {"off", "start"} /\ migration.i > 0 =>
          /\ TakenOf(StepsFor(migration.stories, ~migration.dry_run))
          /\ migration.pc = "done" =>
                migration.trace = StepsFor(migration.stories, ~migration.dry_run)
          /\ migration.pc = "raised" =>
                migration.trace[Len(migration.trace)] =
                   <<"persist", migration.stories[migration.i]>>

\* C29 as amended: the batch driver is strictly sequential and terminates:
\* it takes the Records returned by get_stories_without_category(limit) in
\* list order, each at most once, as classify, then persist (left out in a
\* dry run), then rate-limit delay; classify of the next Record never starts
\* before the delay of the Record before has finished; the run ends after
\* the delay of the last Record, or earlier at a Store call that raises.
C29_SequentialAndTerminates ==
    /\ [](BatchInOrder)
    /\ <>(~Migrating)

\* C29 witness: a saving run over two Records has returned after classify,
\* persist and delay of the first and then of the second.
C29_Witness ==
    /\ migration.pc = "done"
    /\ ~migration.dry_run
    /\ migration.trace = <<<<"classify", 1>>, <<"persist", 1>>, <<"sleep", 1>>,
                           <<"classify", 2>>, <<"persist", 2>>, <<"sleep", 2>>>>

\* C30: a configuration failure disables classification instead of
\* crashing: when LLM_PROVIDER is unknown or the key of the selected hosted
\* provider is missing, classify_story makes no network call, does not raise
\* and returns "other"; likewise a failure while the scheduler is created
\* or started leaves no timer behind: only starts that went through have
\* live timers, and when none went through there is none.
C30_MisconfigurationDisables ==
    /\ (classifier.pc # "off" /\ Misconfigured(classifier.config)) =>
          /\ classifier.posts = 0
          /\ classifier.pc # "raised"
          /\ classifier.pc = "done" => classifier.category = Other
    /\ Cardinality({s \in Instances : \E j \in JobIds : s \in LiveTimers(j)})
          <= atexitHooks
    /\ atexitHooks = 0 => \A j \in JobIds : LiveTimers(j) = {}

\* C30 witness: with the groq key missing classify_story has returned
\* "other" after three calls of call_groq and no request, and an enabled
\* init_scheduler failed at scheduler.start().
C30_Witness ==
    /\ classifier.pc = "done"
    /\ classifier.config.LLM_PROVIDER = "groq"
    /\ classifier.config.GROQ_API_KEY = ""
    /\ classifier.calls = LLM_MAX_RETRIES
    /\ classifier.posts = 0
    /\ classifier.category = Other
    /\ startCalls >= 1
    /\ atexitHooks = 0
    /\ \E s \in Instances : instances[s].state = "pending"

\* C31: for each of the three provider functions every kind of provider
\* failure is a failed attempt: a text that call_llm returns as its result
\* came with a successful transport and a success status and is not empty
\* or blank, and a failed attempt is followed by another one while attempts
\* remain.
C31_ProviderFailuresAreRetried ==
    /\ (classifier.pc \in {"returned", "done"} /\ ~classifier.result.none
           /\ classifier.result.text # <<>>) =>
          /\ classifier.status_ok
          /\ ~classifier.body.none
          /\ \E k \in DOMAIN classifier.body.text :
                classifier.body.text[k] \notin Whitespace
    /\ classifier.pc = "attempt" => classifier.calls < LLM_MAX_RETRIES
    /\ classifier.pc = "sleep" =>
          /\ classifier.calls = classifier.attempt + 1
          /\ classifier.result.none \/ classifier.result.text = <<>>

\* C32: the ingest decision of run_pipeline_job depends on force_scrape and
\* the recent count alone: whatever _last_full_scrape holds and whatever
\* ran before, a run past its decision scrapes exactly when it is forced or
\* the count is below the threshold, and two runs with equal force_scrape
\* and equal count have decided alike.
C32_DecisionIgnoresLastScrape ==
    LET decided == {c \in Ctx : /\ runs[c].kind = "pipeline"
                                /\ runs[c].pc \in {"scrape", "check", "cluster",
                                                   "synth", "stats"}}
        scrapes(c) == runs[c].pc = "scrape" \/ runs[c].scrapeCalls = 1
    IN  /\ \A c \in decided :
              scrapes(c) = (runs[c].force \/ runs[c].recent < SkipThreshold)
        /\ \A c1, c2 \in decided :
              (runs[c1].force = runs[c2].force /\ runs[c1].recent = runs[c2].recent)
                 => scrapes(c1) = scrapes(c2)

\* C32 witness: after an earlier run has set _last_full_scrape, an unforced
\* run that counted no recent article is about to scrape again.
C32_Witness ==
    /\ last_full_scrape # None
    /\ \E c \in Ctx :
          /\ runs[c].kind = "pipeline"
          /\ runs[c].pc = "scrape"
          /\ ~runs[c].force
          /\ runs[c].recent = 0

\* C33: in a dry run the batch driver never calls update_story_category:
\* the category of every Record in the Store stays as it was, while each
\* listed Record is still classified once and followed by the rate-limit
\* delay; in a saving run success_count is the number of Records for which
\* update_story_category answered True.
C33_DryRunWritesNothing ==
    migration.pc # "off" =>
        /\ migration.dry_run =>
              /\ migration.categories = migration.before
              /\ \A id \in RecordIds : migration.handed[id] = <<>>
              /\ \A k \in DOMAIN migration.trace : migration.trace[k][1] # "persist"
              /\ migration.success_count = 0
              /\ migration.pc = "done" =>
                    /\ Len(migration.trace) = 2 * Len(migration.stories)
                    /\ \A k \in DOMAIN migration.stories :
                          /\ migration.trace[2 * k - 1] = <<"classify", migration.stories[k]>>
                          /\ migration.trace[2 * k] = <<"sleep", migration.stories[k]>>
        /\ ~migration.dry_run =>
              migration.success_count = Cardinality(migration.accepted)

\* C33 witness: a dry run over two Records without category has returned
\* after classifying both, the first one as politics, and both are still
\* without category.
C33_Witness ==
    /\ migration.pc = "done"
    /\ migration.dry_run
    /\ migration.stories = <<1, 2>>
    /\ migration.categories = [id \in RecordIds |-> <<>>]
    /\ \E k \in DOMAIN migration.trace : migration.trace[k] = <<"classify", 2>>

\* C34: `python main.py --pipeline` (run_pipeline) calls scrape, then
\* cluster, then synthesize in that order, scraping and clustering without
\* any condition (no recent-count read, no ungrouped check), synthesizing
\* only when run_cluster returned a non-empty result, and catches nothing: a
\* call that raises ends the run before the later steps.
C34_CliPipelineRunsStraight ==
    cli.pc # "off" /\ cli.command = "pipeline" =>
        LET withSynth == <<"init_database", "scrape", "cluster", "synthesize", "stats">>
            without   == <<"init_database", "scrape", "cluster", "stats">>
            n         == Len(cli.calls)
        IN  /\ \/ n <= Len(withSynth) /\ cli.calls = SubSeq(withSynth, 1, n)
               \/ n <= Len(without) /\ cli.calls = SubSeq(without, 1, n)
            /\ (\E k \in 1..n : cli.calls[k] = "synthesize") => cli.clusters = "some"
            /\ (cli.pc \in {"stats", "done"} /\ cli.clusters = "some") =>
                  \E k \in 1..n : cli.calls[k] = "synthesize"
            /\ cli.pc = "done" => cli.calls \in {withSynth, without}
            /\ cli.raisedAt # "none" =>
                  /\ cli.pc = "raised"
                  /\ cli.calls[n] = cli.raisedAt
            /\ cli.pc = "raised" => cli.raisedAt # "none"

\* C34 witness: the pipeline was asked for alone, run_cluster returned an
\* empty list, and the run ended after the statistics without a synthesis.
C34_Witness ==
    /\ cli.args = {"pipeline"}
    /\ cli.pc = "done"
    /\ cli.clusters = "empty"
    /\ cli.calls = <<"init_database", "scrape", "cluster", "stats">>

====
